---------------------------- MODULE Spec2Model ----------------------------
(***************************************************************************)
(* A model of lib/preprocessor.cpp (cppcheck): the configuration           *)
(* enumerator getcfgs, the condition evaluator simplifyCondition /         *)
(* match_cfg_def, the selector getcode with the directive part of          *)
(* expandMacros, and the includer handleIncludes.                          *)
(*                                                                         *)
(* Texts are TLA+ strings; a std::string position is 0-based as in the     *)
(* source, and npos is modelled by NPOS.                                   *)
(***************************************************************************)
EXTENDS Integers, Sequences, FiniteSets, TLC

(***************************************************************************)
(* std::string                                                             *)
(***************************************************************************)
NPOS == -1

Min(S) == CHOOSE x \in S : \A y \in S : x <= y
Max(S) == CHOOSE x \in S : \A y \in S : x >= y

\* s[i]; the terminating '\0' (modelled by "") at and beyond the end
At(s, i) == IF i >= 0 /\ i < Len(s) THEN SubSeq(s, i + 1, i + 1) ELSE ""

\* s.substr(pos, n)
Substr(s, pos, n) ==
    IF pos >= Len(s) \/ n <= 0 THEN ""
    ELSE SubSeq(s, pos + 1, IF pos + n > Len(s) THEN Len(s) ELSE pos + n)

\* s.substr(pos)
SubstrFrom(s, pos) == IF pos >= Len(s) THEN "" ELSE SubSeq(s, pos + 1, Len(s))

\* s.compare(pos, n, pat) == 0
CompareAt(s, pos, n, pat) == Substr(s, pos, n) = pat

\* s.compare(0, Len(pat), pat) == 0
StartsWith(s, pat) == Substr(s, 0, Len(pat)) = pat

\* s.find(pat, pos)
Find(s, pat, pos) ==
    LET hits == {p \in pos .. (Len(s) - Len(pat)) : Substr(s, p, Len(pat)) = pat}
    IN  IF pos < 0 \/ hits = {} THEN NPOS ELSE Min(hits)

\* s.find_first_of(chars, pos): chars is a set of one-character strings
FindFirstOf(s, chars, pos) ==
    LET hits == {p \in pos .. (Len(s) - 1) : At(s, p) \in chars}
    IN  IF pos < 0 \/ hits = {} THEN NPOS ELSE Min(hits)

\* s.find_first_not_of(" ")
FindFirstNotOf(s, chars) ==
    LET hits == {p \in 0 .. (Len(s) - 1) : At(s, p) \notin chars}
    IN  IF hits = {} THEN NPOS ELSE Min(hits)

\* s.find_last_of(chars)
FindLastOf(s, chars) ==
    LET hits == {p \in 0 .. (Len(s) - 1) : At(s, p) \in chars}
    IN  IF hits = {} THEN NPOS ELSE Max(hits)

\* s.erase(pos, n)
Erase(s, pos, n) == Substr(s, 0, pos) \o SubstrFrom(s, pos + n)

\* s.erase(pos)
EraseFrom(s, pos) == Substr(s, 0, pos)

\* s.insert(pos, t)
Insert(s, pos, t) == Substr(s, 0, pos) \o t \o SubstrFrom(s, pos)

\* s[pos] = c
SetAt(s, pos, c) == Substr(s, 0, pos) \o c \o SubstrFrom(s, pos + 1)

(***************************************************************************)
(* <cctype> in the "C" locale, and the byte order of std::string::compare  *)
(***************************************************************************)
LowerChars == "abcdefghijklmnopqrstuvwxyz"
UpperChars == "ABCDEFGHIJKLMNOPQRSTUVWXYZ"
DigitChars == "0123456789"
\* the ASCII characters the model's texts use, in ASCII order
AsciiOrder ==
    "\t\n !\"#$%&'()*+,-./0123456789:;<=>?@ABCDEFGHIJKLMNOPQRSTUVWXYZ[\\]^_abcdefghijklmnopqrstuvwxyz{|}~"

CharsOf(s) == {SubSeq(s, i, i) : i \in 1 .. Len(s)}
LowerSet == CharsOf(LowerChars)
UpperSet == CharsOf(UpperChars)
DigitSet == CharsOf(DigitChars)
AlphaSet == LowerSet \cup UpperSet

isalpha(c) == c \in AlphaSet
isdigit(c) == c \in DigitSet
isalnum(c) == c \in AlphaSet \/ c \in DigitSet
isspace(c) == c \in {" ", "\t", "\n", "\r", "\f"}

Ord(c) == IF c = "" THEN 0
          ELSE Min({i \in 1 .. Len(AsciiOrder) : SubSeq(AsciiOrder, i, i) = c})

\* std::tolower
tolowerWrapper(c) ==
    IF c \in UpperSet
    THEN LET i == Min({k \in 1 .. 26 : SubSeq(UpperChars, k, k) = c})
         IN  SubSeq(LowerChars, i, i)
    ELSE c

\* operator< of std::string
RECURSIVE StrLess(_, _)
StrLess(a, b) ==
    IF b = "" THEN FALSE
    ELSE IF a = "" THEN TRUE
    ELSE IF Head(a) = Head(b) THEN StrLess(Tail(a), Tail(b))
    ELSE Ord(Head(a)) < Ord(Head(b))

(***************************************************************************)
(* std::list<std::string>: sort, unique, find                              *)
(***************************************************************************)
Back(l) == l[Len(l)]
PopBack(l) == SubSeq(l, 1, Len(l) - 1)
Contains(l, x) == \E i \in 1 .. Len(l) : l[i] = x

RECURSIVE InsertSorted(_, _)
InsertSorted(l, x) ==
    IF l = <<>> THEN <<x>>
    ELSE IF StrLess(x, Head(l)) THEN <<x>> \o l
    ELSE <<Head(l)>> \o InsertSorted(Tail(l), x)

\* std::list::sort
RECURSIVE ListSort(_)
ListSort(l) == IF l = <<>> THEN <<>> ELSE InsertSorted(ListSort(PopBack(l)), Back(l))

\* std::list::unique: drops an element equal to its predecessor
RECURSIVE ListUnique(_)
ListUnique(l) ==
    IF Len(l) <= 1 THEN l
    ELSE IF l[Len(l)] = l[Len(l) - 1] THEN ListUnique(PopBack(l))
    ELSE Append(ListUnique(PopBack(l)), Back(l))

\* the iteration order of a std::set<std::string>
RECURSIVE SetToSortedSeq(_)
SetToSortedSeq(S) ==
    IF S = {} THEN <<>>
    ELSE LET x == CHOOSE y \in S : \A z \in S : z = y \/ StrLess(y, z)
         IN  <<x>> \o SetToSortedSeq(S \ {x})


\* split(s, separator): the non-empty parts between separators
RECURSIVE split(_, _)
split(s, separator) ==
    LET pos == Find(s, separator, 0)
    IN  IF s = "" THEN <<>>
        ELSE IF pos = NPOS THEN <<s>>
        ELSE IF pos = 0 THEN split(SubstrFrom(s, 1), separator)
        ELSE <<Substr(s, 0, pos)>> \o split(SubstrFrom(s, pos + 1), separator)

\* join(list, separator): a separator is written only when s is not empty
RECURSIVE join(_, _)
join(list, separator) ==
    IF list = <<>> THEN ""
    ELSE LET s == join(PopBack(list), separator)
         IN  (IF s # "" THEN s \o separator ELSE s) \o Back(list)

\* std::getline until the end of the text: the lines of a text
RECURSIVE getlineAll(_)
getlineAll(text) ==
    LET pos == Find(text, "\n", 0)
    IN  IF text = "" THEN <<>>
        ELSE IF pos = NPOS THEN <<text>>
        ELSE <<Substr(text, 0, pos)>> \o getlineAll(SubstrFrom(text, pos + 1))

\* mutant: an empty line is written after every line
RECURSIVE putLinesTwice(_)
putLinesTwice(lines) ==
    IF lines = <<>> THEN "" ELSE Head(lines) \o "\n\n" \o putLinesTwice(Tail(lines))

\* ostr << line << "\n" for every line
RECURSIVE putLines(_)
putLines(lines) == IF lines = <<>> THEN "" ELSE Head(lines) \o "\n" \o putLines(Tail(lines))

\* mutant: the pending line feeds are not written
NewlinesNone(n) == ""

\* std::string(n, '\n')
RECURSIVE Newlines(_)
Newlines(n) == IF n <= 0 THEN "" ELSE "\n" \o Newlines(n - 1)

\* the number of line feeds in s[from .. to]
countNewlines(s, from, to) == Cardinality({p \in from .. to : At(s, p) = "\n"})

(***************************************************************************)
(* Preprocessor::read: the character loop                                  *)
(***************************************************************************)
\* the character '\0', written as a character that no text of the model holds
NUL == "~"

iscntrl(c) == c \in {"\t", "\n", "\r", "\f", NUL}

\* readChar(istr) with the stream at position i: the character, the position
\* after it, and istr.good() after the call (a peek at the end of the stream
\* sets eofbit)
readChar(s, i) ==
    IF i >= Len(s) THEN [ch |-> "", next |-> i, good |-> FALSE]
    ELSE IF At(s, i) # "\r" THEN [ch |-> At(s, i), next |-> i + 1, good |-> TRUE]
    ELSE IF i + 1 >= Len(s) THEN [ch |-> "\n", next |-> i + 1, good |-> FALSE]
    ELSE [ch |-> "\n", next |-> IF At(s, i + 1) = "\n" THEN i + 2 ELSE i + 1, good |-> TRUE]

\* the gcc build: the whitespace between a backslash and the line end is skipped
RECURSIVE skipBlank(_, _)
skipBlank(s, i) ==
    IF i < Len(s) /\ At(s, i) \notin {"\n", "\r"} /\ (isspace(At(s, i)) \/ iscntrl(At(s, i)))
    THEN skipBlank(s, i + 1)
    ELSE i

\* the locals of read before the first character; i is the position of the
\* stream and good is istr.good()
readInit ==
    [code |-> "", ignoreSpace |-> TRUE, needSpace |-> FALSE, newlines |-> 0,
     i |-> 0, good |-> TRUE]

\* ch = readChar(istr), the loop condition, and the loop body if it holds;
\* gnuc: built with __GNUC__
readStep(s, r, gnuc) ==
    LET c == readChar(s, r.i)
        ch == IF c.ch # "\n" /\ (isspace(c.ch) \/ iscntrl(c.ch)) THEN " " ELSE c.ch
        code1 == IF r.needSpace /\ ch \in {"(", "!"} THEN r.code \o " " ELSE r.code
        r1 == [r EXCEPT
                 !.code = code1,
                 !.ignoreSpace = ch \in {" ", "#", "\n"},
                 !.needSpace = IF ch = "#" THEN TRUE
                               ELSE IF r.needSpace /\ ch \notin {"(", "!"} /\ ~isalpha(ch)
                               THEN FALSE
                               ELSE r.needSpace]
        k == IF gnuc THEN skipBlank(s, c.next) ELSE c.next
        d == readChar(s, k)
    IN  IF ~c.good THEN [r EXCEPT !.good = FALSE]
        ELSE IF ch = " " /\ r.ignoreSpace THEN [r EXCEPT !.i = c.next]
        ELSE IF ch = "\\"
        THEN IF k >= Len(s) THEN [r1 EXCEPT !.code = code1 \o "\\", !.good = FALSE]
             ELSE IF At(s, k) \in {"\n", "\r"}
             THEN [r1 EXCEPT !.newlines = r.newlines + 1, !.i = d.next, !.good = d.good]
             ELSE [r1 EXCEPT !.code = code1 \o "\\", !.i = k]
        ELSE IF ch = "\n"
        THEN [r1 EXCEPT !.code = code1 \o "\n" \o Newlines(r.newlines), !.newlines = 0,
                        !.i = c.next]
        ELSE [r1 EXCEPT !.code = code1 \o ch, !.i = c.next]

\* the for loop of read: the text in code when the stream is not good
RECURSIVE readLoop(_, _, _)
readLoop(s, r, gnuc) == IF ~r.good THEN r.code ELSE readLoop(s, readStep(s, r, gnuc), gnuc)

(***************************************************************************)
(* Preprocessor::removeComments (ASCII text, no inline suppressions)       *)
(***************************************************************************)
\* the index of the '/' that closes a comment, searched from k, or the length
commentEnd(str, k) ==
    LET ends == {p \in k .. (Len(str) - 1) : At(str, p - 1) = "*" /\ At(str, p) = "/"}
    IN  IF ends = {} THEN Len(str) ELSE Min(ends)

\* the do-while over a string or char constant; i0 is the last index read;
\* <<last index read, locals>>
RECURSIVE quoteLoop(_, _, _, _)
quoteLoop(str, i0, q, r) ==
    LET i == i0 + 1
        \* str[str.length()] is '\0'
        chNext == IF i >= Len(str) THEN NUL ELSE At(str, i)
        chSeq == IF i + 1 >= Len(str) THEN NUL ELSE At(str, i + 1)
        rEsc == IF chSeq = "\n" THEN [r EXCEPT !.newlines = r.newlines + 1]
                ELSE [r EXCEPT !.code = r.code \o chNext \o chSeq, !.previous = chSeq]
        rChr == [r EXCEPT !.code = r.code \o chNext, !.previous = chNext]
    IN  IF chNext = "\\"
        THEN IF i + 1 < Len(str) THEN quoteLoop(str, i + 1, q, rEsc) ELSE <<i + 1, rEsc>>
        ELSE IF i < Len(str) /\ chNext # q /\ chNext # "\n"
             THEN quoteLoop(str, i, q, rChr)
             ELSE <<i, rChr>>

\* delim of a raw string: the loop from i2
RECURSIVE rawDelim(_, _, _)
rawDelim(str, i2, delim) ==
    IF i2 >= Len(str) THEN delim
    ELSE IF \/ i2 > 16
            \/ isspace(At(str, i2))
            \/ iscntrl(At(str, i2))
            \/ At(str, i2) = ")"
            \/ At(str, i2) = "\\"
         THEN " "
    ELSE IF At(str, i2) = "(" THEN delim
    ELSE rawDelim(str, i2 + 1, delim \o At(str, i2))

\* the characters of a raw string from p up to endpos, as written to code
RECURSIVE rawBody(_, _, _)
rawBody(str, p, endpos) ==
    IF p >= endpos THEN ""
    ELSE (IF At(str, p) = "\n" THEN "\\n"
          ELSE IF iscntrl(At(str, p)) \/ isspace(At(str, p)) THEN " "
          ELSE IF At(str, p) = "\\" THEN "\\"
          ELSE IF At(str, p) \in {"\"", "'"} THEN "\\" \o At(str, p)
          ELSE At(str, p)) \o rawBody(str, p + 1, endpos)

\* the locals of removeComments before the first character; i is the index
removeCommentsInit == [code |-> "", previous |-> "", newlines |-> 0, i |-> 0]

\* one iteration of the for loop of removeComments; a break leaves i at the length
removeCommentsStep(str, r) ==
    LET i == r.i
        ch == At(str, i)
        nl == Find(str, "\n", i)
        iserror == CompareAt(str, i, 6, "#error")
        codeErr == IF iserror THEN r.code \o "#error" ELSE r.code
        e == commentEnd(str, i + 3)
        quoted == quoteLoop(str, i, ch, [r EXCEPT !.code = r.code \o ch])
        delim == rawDelim(str, i + 2, "")
        endpos == Find(str, ")" \o delim \o "\"", i)
        rawnl == countNewlines(str, i + 3 + Len(delim), endpos - 1)
    IN  IF iserror \/ CompareAt(str, i, 8, "#warning")
        THEN [r EXCEPT !.code = codeErr, !.i = IF nl = NPOS THEN Len(str) ELSE nl]
        ELSE IF CompareAt(str, i, 2, "//")
        THEN IF nl = NPOS THEN [r EXCEPT !.i = Len(str)]
             ELSE [r EXCEPT !.code = r.code \o "\n", !.previous = "\n", !.i = nl + 1]
        ELSE IF CompareAt(str, i, 2, "/*")
        THEN [r EXCEPT !.newlines = r.newlines + countNewlines(str, i + 2, e), !.i = e + 1]
        ELSE IF ch \in {"\"", "'"}
        THEN [quoted[2] EXCEPT !.i = quoted[1] + 1]
        ELSE IF CompareAt(str, i, 2, "R\"")
        THEN IF delim # " " /\ endpos # NPOS
             THEN [r EXCEPT !.code = r.code \o "\"" \o rawBody(str, i + 3 + Len(delim), endpos)
                                      \o "\"" \o Newlines(rawnl),
                            !.i = endpos + Len(delim) + 3]
             ELSE [r EXCEPT !.code = r.code \o "R", !.previous = "R", !.i = i + 1]
        ELSE IF ch = "\n"
        THEN [code |-> r.code \o "\n" \o Newlines(r.newlines), previous |-> "\n",
              newlines |-> 0, i |-> i + 1]
        ELSE IF ch = " " /\ r.previous = " "
        THEN [r EXCEPT !.i = i + 1]
        ELSE [r EXCEPT !.code = r.code \o ch, !.previous = ch, !.i = i + 1]

\* mutant: the text of a #error or #warning line is copied like other text
RECURSIVE removeCommentsLoopKeep(_, _)
removeCommentsLoopKeep(str, r) ==
    IF r.i >= Len(str) THEN r.code
    ELSE IF CompareAt(str, r.i, 6, "#error") \/ CompareAt(str, r.i, 8, "#warning")
    THEN removeCommentsLoopKeep(str, [r EXCEPT !.code = r.code \o At(str, r.i),
                                               !.previous = At(str, r.i), !.i = r.i + 1])
    ELSE removeCommentsLoopKeep(str, removeCommentsStep(str, r))

\* the for loop of removeComments
RECURSIVE removeCommentsLoop(_, _)
removeCommentsLoop(str, r) ==
    IF r.i >= Len(str) THEN r.code ELSE removeCommentsLoop(str, removeCommentsStep(str, r))

removeComments(str) == removeCommentsLoop(str, removeCommentsInit)

(***************************************************************************)
(* Preprocessor::removeParantheses and Preprocessor::read                  *)
(***************************************************************************)
\* while ((pos = line.find(pat, pos)) != npos) line.erase(pos + off, 1);
RECURSIVE eraseNear(_, _, _, _)
eraseNear(line, pat, off, pos0) ==
    LET pos == Find(line, pat, pos0)
    IN  IF pos = NPOS THEN line ELSE eraseNear(Erase(line, pos + off, 1), pat, off, pos)

\* "Remove inner paranthesis"
RECURSIVE innerParantheses(_, _)
innerParantheses(line, pos0) ==
    LET pos == Find(line, "((", pos0) + 1
        pos2 == FindFirstOf(line, {"(", ")"}, pos + 1)
    IN  IF Find(line, "((", pos0) = NPOS THEN line
        ELSE IF pos2 # NPOS /\ At(line, pos2) = ")"
        THEN innerParantheses(Erase(Erase(line, pos2, 1), pos, 1), pos)
        ELSE innerParantheses(line, pos)

\* the index of the ')' at which ind returns to 0, or NPOS
RECURSIVE closingParanthesis(_, _, _)
closingParanthesis(line, i, ind) ==
    IF i >= Len(line) THEN NPOS
    ELSE IF At(line, i) = "(" THEN closingParanthesis(line, i + 1, ind + 1)
    ELSE IF At(line, i) = ")"
         THEN IF ind - 1 = 0 THEN i ELSE closingParanthesis(line, i + 1, ind - 1)
    ELSE closingParanthesis(line, i + 1, ind)

\* "#if(A) => #if A"
outerParantheses(line) ==
    IF /\ (CompareAt(line, 0, 4, "#if(") \/ CompareAt(line, 0, 6, "#elif("))
       /\ At(line, Len(line) - 1) = ")"
       /\ closingParanthesis(line, 0, 0) = Len(line) - 1
    THEN EraseFrom(SetAt(line, Find(line, "(", 0), " "), Len(line) - 1)
    ELSE line

\* one line of removeParantheses
removeParanthesesLine(line) ==
    IF CompareAt(line, 0, 3, "#if") \/ CompareAt(line, 0, 5, "#elif")
    THEN LET l1 == eraseNear(line, " (", 0, 0)
             l2 == eraseNear(l1, "( ", 1, 0)
             l3 == eraseNear(l2, " )", 0, 0)
             l4 == eraseNear(l3, ") ", 1, 0)
             l5 == outerParantheses(innerParantheses(l4, 0))
         IN  IF CompareAt(l5, 0, 4, "#if(") THEN Insert(l5, 3, " ")
             ELSE IF CompareAt(l5, 0, 6, "#elif(") THEN Insert(l5, 5, " ")
             ELSE l5
    ELSE line

RECURSIVE removeParanthesesLines(_)
removeParanthesesLines(lines) ==
    IF lines = <<>> THEN <<>>
    ELSE <<removeParanthesesLine(Head(lines))>> \o removeParanthesesLines(Tail(lines))

removeParantheses(str) ==
    IF Find(str, "\n#if", 0) = NPOS /\ ~CompareAt(str, 0, 3, "#if") THEN str
    ELSE putLines(removeParanthesesLines(getlineAll(str)))

\* Preprocessor::read of a stream that holds s
read(s, gnuc) == removeParantheses(removeComments(readLoop(s, readInit, gnuc)))

(***************************************************************************)
(* Preprocessor::preprocessWhitespaces, removeAsm                          *)
(***************************************************************************)
\* std::replace(begin, end, from, to)
replaceChar(s, from, to) ==
    LET hits == {p \in 0 .. (Len(s) - 1) : At(s, p) = from}
        RECURSIVE setAll(_, _)
        setAll(t, ps) ==
            IF ps = {} THEN t ELSE setAll(SetAt(t, Min(ps), to), ps \ {Min(ps)})
    IN  setAll(s, hits)

\* one iteration of the loop of removeSpaceNearNL
removeSpaceNearNLStep(str, r) ==
    IF /\ At(str, r.i) = " "
       /\ ((r.i > 0 /\ r.prev = "\n") \/ (r.i + 1 < Len(str) /\ At(str, r.i + 1) = "\n"))
    THEN [r EXCEPT !.i = r.i + 1]
    ELSE [tmp |-> r.tmp \o At(str, r.i), prev |-> At(str, r.i), i |-> r.i + 1]

RECURSIVE removeSpaceNearNLLoop(_, _)
removeSpaceNearNLLoop(str, r) ==
    IF r.i >= Len(str) THEN r.tmp ELSE removeSpaceNearNLLoop(str, removeSpaceNearNLStep(str, r))

removeSpaceNearNL(str) == removeSpaceNearNLLoop(str, [tmp |-> "", prev |-> "", i |-> 0])

preprocessWhitespaces(processedFile) ==
    LET s == replaceChar(processedFile, "\t", " ")
    IN  removeSpaceNearNL(IF s # "" /\ At(s, 0) = " "
                          THEN IF FindFirstNotOf(s, {" "}) = NPOS THEN ""
                               ELSE Erase(s, 0, FindFirstNotOf(s, {" "}))
                          ELSE s)

\* the loop of _removeAsm: <<pos2, newlines>>
RECURSIVE removeAsmScan(_, _, _, _, _)
removeAsmScan(str, pos2, newlines, instr, parlevel) ==
    IF pos2 >= Len(str) THEN <<pos2, newlines>>
    ELSE IF At(str, pos2) = "\"" THEN removeAsmScan(str, pos2 + 1, newlines, ~instr, parlevel)
    ELSE IF At(str, pos2) = "\n" THEN removeAsmScan(str, pos2 + 1, newlines + 1, instr, parlevel)
    ELSE IF ~instr /\ At(str, pos2) = "("
         THEN removeAsmScan(str, pos2 + 1, newlines, instr, parlevel + 1)
    ELSE IF ~instr /\ At(str, pos2) = ")"
         THEN IF parlevel <= 1 THEN <<pos2, newlines>>
              ELSE removeAsmScan(str, pos2 + 1, newlines, instr, parlevel - 1)
    ELSE removeAsmScan(str, pos2 + 1, newlines, instr, parlevel)

\* _removeAsm(str, pos)
removeAsmAt(str, pos) ==
    LET r == removeAsmScan(str, pos + 1, 0, FALSE, 0)
    IN  Insert(Erase(str, pos + 1, r[1] - pos), pos, Newlines(r[2]))

\* while ((pos = str.find(pat, pos)) != npos) { _removeAsm(str, pos++); str.insert(pos, "asm()"); }
RECURSIVE removeAsmInsert(_, _, _)
removeAsmInsert(str, pat, pos0) ==
    LET pos == Find(str, pat, pos0)
    IN  IF pos = NPOS THEN str
        ELSE removeAsmInsert(Insert(removeAsmAt(str, pos), pos + 1, "asm()"), pat, pos + 1)

\* while ((pos = str.find(pat, pos)) != npos) _removeAsm(str, pos);
RECURSIVE removeAsmVolatile(_, _, _)
removeAsmVolatile(str, pat, pos0) ==
    LET pos == Find(str, pat, pos0)
    IN  IF pos = NPOS THEN str ELSE removeAsmVolatile(removeAsmAt(str, pos), pat, pos)

removeAsm(str) ==
    removeAsmVolatile(
        removeAsmVolatile(
            removeAsmInsert(removeAsmInsert(str, "\nasm(", 0), "\nasm (", 0),
            "\nasm __volatile(", 0),
        "\nasm __volatile (", 0)

(***************************************************************************)
(* Preprocessor::preprocess: "defined A" => "defined(A)", replaceIfDefined *)
(***************************************************************************)
\* while ((pos = line.find(" defined ")) != npos) { ... }
RECURSIVE definedParenthesesLine(_)
definedParenthesesLine(line) ==
    LET pos == Find(line, " defined ", 0)
        l1 == SetAt(line, pos + 8, "(")
        pos1 == FindFirstOf(l1, {" ", "|", "&"}, pos + 8)
    IN  IF pos = NPOS THEN line
        ELSE definedParenthesesLine(IF pos1 = NPOS THEN l1 \o ")" ELSE Insert(l1, pos1, ")"))

RECURSIVE definedParenthesesLines(_)
definedParenthesesLines(lines) ==
    IF lines = <<>> THEN <<>>
    ELSE <<IF CompareAt(Head(lines), 0, 4, "#if ") \/ CompareAt(Head(lines), 0, 6, "#elif ")
           THEN definedParenthesesLine(Head(lines))
           ELSE Head(lines)>> \o definedParenthesesLines(Tail(lines))

\* the block "Replace "defined A" with "defined(A)"" of preprocess
definedParentheses(processedFile) == putLines(definedParenthesesLines(getlineAll(processedFile)))

\* one of the three loops of replaceIfDefined: every "<directive>defined(NAME)" at the
\* end of a line loses "defined(" (n characters from pos + off) and ")", and
\* gets ins in their place
RECURSIVE replaceIfDefinedLoop(_, _, _, _, _, _)
replaceIfDefinedLoop(ret, pat, off, n, ins, pos0) ==
    LET pos == Find(ret, pat, pos0)
        pos2 == Find(ret, ")", pos + 9)
    IN  IF pos = NPOS THEN ret
        ELSE IF pos2 = NPOS THEN ret
        ELSE IF At(ret, pos2 + 1) = "\n"
        THEN replaceIfDefinedLoop(Insert(Erase(Erase(ret, pos2, 1), pos + off, n), pos + off, ins),
                                  pat, off, n, ins, pos + 1)
        ELSE replaceIfDefinedLoop(ret, pat, off, n, ins, pos + 1)

replaceIfDefined(str) ==
    replaceIfDefinedLoop(
        replaceIfDefinedLoop(replaceIfDefinedLoop(str, "#if defined(", 3, 9, "def ", 0),
                             "#if !defined(", 3, 10, "ndef ", 0),
        "#elif defined(", 6, 8, "", 0)

(***************************************************************************)
(* Preprocessor::getHeaderFileName, Preprocessor::handleIncludes           *)
(***************************************************************************)
\* getHeaderFileName(str): the header type and the value left in str
getHeaderFileName(str) ==
    LET i == FindFirstOf(str, {"<", "\""}, 0)
        c == IF At(str, i) = "<" THEN ">" ELSE At(str, i)
        e == Find(str, c, i + 1)
        result == IF e = NPOS THEN SubstrFrom(str, i + 1) ELSE Substr(str, i + 1, e - (i + 1))
    IN  IF i = NPOS THEN [type |-> "NoHeader", name |-> ""]
        ELSE [type |-> IF c = "\"" THEN "UserHeader" ELSE "SystemHeader",
              name |-> replaceChar(result, "\\", "/")]

\* FileLister::simplifyPath on the components of a relative path: "." is
\* dropped, and "dir/.." is dropped
RECURSIVE simplifyPathParts(_)
simplifyPathParts(parts) ==
    IF \E i \in 1 .. Len(parts) : parts[i] = "."
    THEN LET i == CHOOSE k \in 1 .. Len(parts) : parts[k] = "."
         IN  simplifyPathParts(SubSeq(parts, 1, i - 1) \o SubSeq(parts, i + 1, Len(parts)))
    ELSE IF \E i \in 2 .. Len(parts) : parts[i] = ".." /\ parts[i - 1] # ".."
    THEN LET i == CHOOSE k \in 2 .. Len(parts) : parts[k] = ".." /\ parts[k - 1] # ".."
         IN  simplifyPathParts(SubSeq(parts, 1, i - 2) \o SubSeq(parts, i + 1, Len(parts)))
    ELSE parts

simplifyPath(originalPath) == join(simplifyPathParts(split(originalPath, "/")), "/")

\* std::transform(begin, end, begin, tolowerWrapper)
RECURSIVE tolowerString(_)
tolowerString(s) ==
    IF s = "" THEN "" ELSE tolowerWrapper(Head(s)) \o tolowerString(Tail(s))

\* fin.open(name); fin.is_open(): files maps the paths of the file system to
\* the files' texts, and the system resolves "." and ".." in a name
isOpen(files, name) == simplifyPath(name) \in DOMAIN files
fileText(files, name) == files[simplifyPath(name)]

\* path = filename; path.erase(1 + path.find_last_of("\\/"));
dirOf(filename) == EraseFrom(filename, 1 + FindLastOf(filename, {"\\", "/"}))

\* the first of includePaths2 under which filename opens: its index, or 0
firstOpen(files, includePaths2, filename) ==
    LET hits == {k \in 1 .. Len(includePaths2) : isOpen(files, includePaths2[k] \o filename)}
    IN  IF hits = {} THEN 0 ELSE Min(hits)

\* the loop that pops the paths of the files closed before pos:
\* <<paths, ub>>; pop_back() of an empty list is undefined
RECURSIVE popEndfiles(_, _, _, _)
popEndfiles(code, endfilePos0, pos, paths) ==
    LET endfilePos == Find(code, "\n#endfile", endfilePos0)
    IN  IF endfilePos = NPOS \/ endfilePos >= pos THEN <<paths, FALSE>>
        ELSE IF paths = <<>> THEN <<paths, TRUE>>
        ELSE popEndfiles(code, endfilePos + 9, pos, PopBack(paths))

\* mutant: the opened file is not recorded in handledFiles
handledFilesInsertNot(handledFiles, tempFile) == handledFiles

\* handledFiles.insert(tempFile)
handledFilesInsert(handledFiles, tempFile) == handledFiles \cup {tempFile}

\* mutant: "\n#endfile" is not appended to the included text
fileBlockNoEndfile(filename, processedFile) ==
    "#file \"" \o filename \o "\"\n" \o processedFile

\* the text spliced in for an included file
fileBlock(filename, processedFile) ==
    "#file \"" \o filename \o "\"\n" \o processedFile \o "\n#endfile"

\* the locals of handleIncludes before the loop; inlined (the names under which
\* files were spliced in, in order), skipped (the number of #include clauses
\* removed because the file was handled before) and steps (the iterations) are
\* history
handleIncludesInit(code, filePath) ==
    [code |-> code, paths |-> <<dirOf(filePath)>>, pos |-> 0, endfilePos |-> 0,
     handledFiles |-> {}, returned |-> FALSE, ub |-> FALSE,
     inlined |-> <<>>, skipped |-> 0, steps |-> 0]

\* one evaluation of the loop condition, and the loop body if it holds
handleIncludesStep(h, includePaths, files, gnuc) ==
    LET pos == Find(h.code, "#include", h.pos)
        popped == popEndfiles(h.code, h.endfilePos, pos, h.paths)
        paths == popped[1]
        end == Find(h.code, "\n", pos)
        clause == IF end = NPOS THEN SubstrFrom(h.code, pos) ELSE Substr(h.code, pos, end - pos)
        code == IF end = NPOS THEN EraseFrom(h.code, pos) ELSE Erase(h.code, pos, end - pos)
        header == getHeaderFileName(clause)
        includePaths2 == <<"">> \o includePaths
        k == firstOpen(files, includePaths2, header.name)
        user == header.type = "UserHeader" /\ k = 0
        fileOpened == k # 0 \/ (user /\ isOpen(files, Back(paths) \o header.name))
        filename == IF k # 0 THEN includePaths2[k] \o header.name
                    ELSE IF fileOpened THEN Back(paths) \o header.name
                    ELSE header.name
        tempFile == tolowerString(simplifyPath(filename))
        processedFile == preprocessWhitespaces(read(fileText(files, filename), gnuc))
        h1 == [h EXCEPT !.steps = h.steps + 1, !.pos = pos, !.endfilePos = pos,
                        !.paths = paths, !.code = code]
    IN  IF pos = NPOS THEN [h EXCEPT !.returned = TRUE]
        ELSE IF pos > 0 /\ At(h.code, pos - 1) # "\n"
        THEN [h EXCEPT !.steps = h.steps + 1, !.pos = pos + 8]
        ELSE IF popped[2] THEN [h EXCEPT !.ub = TRUE]
        ELSE IF header.type = "NoHeader" THEN h1
        ELSE IF user /\ paths = <<>> THEN [h EXCEPT !.ub = TRUE]
        ELSE IF ~fileOpened THEN h1
        ELSE IF tempFile \in h.handledFiles THEN [h1 EXCEPT !.skipped = h.skipped + 1]
        ELSE IF processedFile = ""
        THEN [h1 EXCEPT !.handledFiles = handledFilesInsert(h.handledFiles, tempFile)]
        ELSE [h1 EXCEPT !.handledFiles = handledFilesInsert(h.handledFiles, tempFile),
                        !.code = Insert(code, pos, fileBlock(filename, processedFile)),
                        !.paths = Append(paths, dirOf(filename)),
                        !.inlined = Append(h.inlined, tempFile)]

\* the loop, for at most n iterations
RECURSIVE handleIncludesLoop(_, _, _, _, _)
handleIncludesLoop(h, includePaths, files, gnuc, n) ==
    IF h.returned \/ h.ub \/ n = 0 THEN h
    ELSE handleIncludesLoop(handleIncludesStep(h, includePaths, files, gnuc),
                            includePaths, files, gnuc, n - 1)

(***************************************************************************)
(* Tokenizer and Token (lib/tokenize.cpp, lib/token.cpp): the token list   *)
(* of a preprocessor condition                                            *)
(***************************************************************************)
isName(tok) == tok # "" /\ (isalpha(Head(tok)) \/ Head(tok) = "_")
isNumber(tok) == tok # "" /\ isdigit(Head(tok))
isIdentChar(c) == c # "" /\ (isalnum(c) \/ c = "_")

RECURSIVE identEnd(_, _)
identEnd(s, pos) == IF isIdentChar(At(s, pos)) THEN identEnd(s, pos + 1) ELSE pos

\* Tokenizer::tokenize: names and numbers, the two-character operators, and
\* every other character a token of its own; spaces separate tokens
RECURSIVE tokenize(_)
tokenize(s) ==
    IF s = "" THEN <<>>
    ELSE IF Head(s) = " " THEN tokenize(Tail(s))
    ELSE IF isIdentChar(Head(s))
         THEN <<Substr(s, 0, identEnd(s, 0))>> \o tokenize(SubstrFrom(s, identEnd(s, 0)))
    ELSE IF Substr(s, 0, 2) \in {"&&", "||", "==", "!=", "<=", ">="}
         THEN <<Substr(s, 0, 2)>> \o tokenize(SubstrFrom(s, 2))
    ELSE <<Head(s)>> \o tokenize(Tail(s))

\* tok->strAt(0) for the token at index i; "" beyond either end
strAt(toks, i) == IF i >= 1 /\ i <= Len(toks) THEN toks[i] ELSE ""

\* the token list without the n tokens that follow index i (deleteNext, n times)
deleteNext(toks, i, n) ==
    SubSeq(toks, 1, i) \o (IF i + n >= Len(toks) THEN <<>> ELSE SubSeq(toks, i + n + 1, Len(toks)))

\* tok->str(value) for the token at index i
setStr(toks, i, value) == [toks EXCEPT ![i] = value]

\* Tokenizer::simplifyCalculations, one pass from index i, for conditions made of
\* names, integers, parentheses, !, &&, || and comparisons: parentheses around a
\* number that follows a token other than a name are removed, "( 0 ||", "|| 0 )",
\* "( 1 &&" and "&& 1 )" lose the number and the operator, and a comparison of
\* two integers is replaced by its value
RECURSIVE simplifyCalculationsFrom(_, _)
simplifyCalculationsFrom(toks, i) ==
    IF i > Len(toks) THEN toks
    ELSE IF ~isNumber(toks[i]) THEN simplifyCalculationsFrom(toks, i + 1)
    ELSE IF /\ i >= 3
            /\ strAt(toks, i - 1) = "("
            /\ strAt(toks, i + 1) = ")"
            /\ ~isName(toks[i - 2])
            /\ toks[i - 2] # ">"
         THEN simplifyCalculationsFrom(
                  SubSeq(toks, 1, i - 2) \o <<toks[i]>> \o SubSeq(toks, i + 2, Len(toks)), i)
    ELSE IF \/ (strAt(toks, i - 1) = "(" /\ toks[i] = "0" /\ strAt(toks, i + 1) = "||")
            \/ (strAt(toks, i - 1) = "(" /\ toks[i] = "1" /\ strAt(toks, i + 1) = "&&")
         THEN simplifyCalculationsFrom(deleteNext(toks, i - 1, 2), i + 1)
    ELSE IF \/ (strAt(toks, i - 1) = "||" /\ toks[i] = "0" /\ strAt(toks, i + 1) = ")")
            \/ (strAt(toks, i - 1) = "&&" /\ toks[i] = "1" /\ strAt(toks, i + 1) = ")")
         THEN simplifyCalculationsFrom(deleteNext(toks, i - 2, 2), i)
    ELSE IF strAt(toks, i + 1) \in {"==", "!="} /\ isNumber(strAt(toks, i + 2))
         THEN simplifyCalculationsFrom(
                  deleteNext(setStr(toks, i,
                                    IF (toks[i] = toks[i + 2]) = (toks[i + 1] = "==")
                                    THEN "1" ELSE "0"), i, 2), i + 1)
    ELSE simplifyCalculationsFrom(toks, i + 1)

simplifyCalculations(toks) == simplifyCalculationsFrom(toks, 1)

(***************************************************************************)
(* Preprocessor::simplifyCondition                                         *)
(***************************************************************************)
\* the map's keys
hasKey(variables, name) == name \in DOMAIN variables

\* the loop "replace variable names with values": the token at index i
RECURSIVE replaceVariables(_, _, _, _)
replaceVariables(toks, i, variables, match) ==
    IF i > Len(toks) THEN toks
    ELSE IF ~isName(toks[i]) THEN replaceVariables(toks, i + 1, variables, match)
    ELSE IF /\ toks[i] = "defined" /\ strAt(toks, i + 1) = "("
            /\ isName(strAt(toks, i + 2)) /\ strAt(toks, i + 3) = ")"
         THEN IF hasKey(variables, toks[i + 2])
              THEN replaceVariables(deleteNext(setStr(toks, i, "1"), i, 3), i + 1, variables, match)
              ELSE IF match
              THEN replaceVariables(deleteNext(setStr(toks, i, "0"), i, 3), i + 1, variables, match)
              ELSE replaceVariables(toks, i + 1, variables, match)
    ELSE IF toks[i] = "defined" /\ isName(strAt(toks, i + 1))
         THEN IF hasKey(variables, toks[i + 1])
              THEN replaceVariables(deleteNext(setStr(toks, i, "1"), i, 1), i + 1, variables, match)
              ELSE IF match
              THEN replaceVariables(deleteNext(setStr(toks, i, "0"), i, 1), i + 1, variables, match)
              ELSE replaceVariables(toks, i + 1, variables, match)
    ELSE IF hasKey(variables, toks[i])
         THEN IF variables[toks[i]] # ""
              THEN replaceVariables(setStr(toks, i, variables[toks[i]]), i + 1, variables, match)
              ELSE IF /\ (i = 1 \/ strAt(toks, i - 1) \in {"||", "&&", "("})
                      /\ (i = Len(toks) \/ strAt(toks, i + 1) \in {"||", "&&"}
                            \/ strAt(toks, i - 1) = ")")
              THEN replaceVariables(setStr(toks, i, "1"), i + 1, variables, match)
              \* deleteThis: the next token takes this one's place and is stepped over
              ELSE replaceVariables(deleteNext(toks, i - 1, 1), i + 1, variables, match)
    ELSE replaceVariables(toks, i + 1, variables, match)

\* the loop over "! %num%" after one simplifyCalculations; <<tokens, modified>>
RECURSIVE negateNumbers(_, _, _)
negateNumbers(toks, i, modified) ==
    IF i > Len(toks) THEN <<toks, modified>>
    ELSE IF toks[i] = "!" /\ isNumber(strAt(toks, i + 1))
         THEN negateNumbers(
                  setStr(deleteNext(toks, i - 1, 1), i, IF toks[i + 1] = "0" THEN "1" ELSE "0"),
                  i + 1, TRUE)
    ELSE negateNumbers(toks, i + 1, modified)

\* while (modified) { simplifyCalculations(); ... }
RECURSIVE simplifyLoop(_)
simplifyLoop(toks) ==
    LET r == negateNumbers(simplifyCalculations(toks), 1, FALSE)
    IN  IF r[2] THEN simplifyLoop(r[1]) ELSE r[1]

\* the value of condition after simplifyCondition(variables, condition, match)
simplifyCondition(variables, condition, match) ==
    LET toks == tokenize("(" \o condition \o ")")
    IN  IF strAt(toks, 1) = "(" /\ isName(strAt(toks, 2)) /\ strAt(toks, 3) = ")"
        THEN IF hasKey(variables, toks[2]) THEN "1"
             ELSE IF match THEN "0" ELSE condition
        ELSE IF /\ strAt(toks, 1) = "(" /\ strAt(toks, 2) = "!"
                /\ isName(strAt(toks, 3)) /\ strAt(toks, 4) = ")"
        THEN IF ~hasKey(variables, toks[3]) THEN "1"
             ELSE IF match THEN "0" ELSE condition
        ELSE LET t == simplifyLoop(replaceVariables(toks, 1, variables, match))
             IN  IF \/ (strAt(t, 1) = "(" /\ strAt(t, 2) = "1" /\ strAt(t, 3) = ")")
                    \/ (strAt(t, 1) = "(" /\ strAt(t, 2) = "1" /\ strAt(t, 3) = "||")
                 THEN "1"
                 ELSE IF strAt(t, 1) = "(" /\ strAt(t, 2) = "0" /\ strAt(t, 3) = ")"
                 THEN "0"
                 ELSE condition

\* mutant: a name whose value is 0 does not match
match_cfg_defValue(cfg, def) ==
    LET matches(d) ==
            IF hasKey(cfg, def) /\ cfg[def] = "0" THEN FALSE
            ELSE IF hasKey(cfg, d) THEN TRUE
            ELSE IF d = "0" THEN FALSE
            ELSE IF d = "1" THEN TRUE
            ELSE FALSE
    IN  matches(simplifyCondition(cfg, def, TRUE))

\* Preprocessor::match_cfg_def(cfg, def)
match_cfg_def(cfg, def) ==
    LET matches(d) ==
            IF hasKey(cfg, d) THEN TRUE
            ELSE IF d = "0" THEN FALSE
            ELSE IF d = "1" THEN TRUE
            ELSE FALSE
    IN  matches(simplifyCondition(cfg, def, TRUE))

(***************************************************************************)
(* Preprocessor::getdef                                                    *)
(***************************************************************************)
\* the loop "Remove all spaces": a space stays only between two characters
\* that are alphanumeric or '_'
RECURSIVE getdefSpaces(_, _)
getdefSpaces(line, pos0) ==
    LET pos == Find(line, " ", pos0)
        chprev == IF pos > 0 THEN At(line, pos - 1) ELSE ""
        chnext == IF pos + 1 < Len(line) THEN At(line, pos + 1) ELSE ""
    IN  IF pos = NPOS THEN line
        ELSE IF isIdentChar(chprev) /\ isIdentChar(chnext)
        THEN getdefSpaces(line, pos + 1)
        ELSE getdefSpaces(Erase(line, pos, 1), pos)

getdef(line, def) ==
    IF def /\ Find(line, "#ifdef ", 0) # 0 /\ Find(line, "#if ", 0) # 0
           /\ Find(line, "#elif ", 0) # 0 /\ Find(line, "#if defined ", 0) # 0
    THEN ""
    ELSE IF ~def /\ Find(line, "#ifndef ", 0) # 0
    THEN ""
    ELSE getdefSpaces(IF Find(line, "#if defined ", 0) = 0
                      THEN Erase(line, 0, 11)
                      ELSE Erase(line, 0, Find(line, " ", 0)), 0)

(***************************************************************************)
(* Preprocessor::getcfgs: the scan of one line                             *)
(***************************************************************************)
\* the id of the error reported for a parenthesis mismatch:
\* "preprocessor" followed by __LINE__
ParMismatchId == "preprocessor840"

\* mutant: ret.push_back("") is missing
getcfgsInitNoEmpty ==
    [ret |-> <<>>, deflist |-> <<>>, ndeflist |-> <<>>, defines |-> {},
     filelevel |-> 0, includeguard |-> FALSE, linenr |-> 0,
     returned |-> FALSE, errors |-> <<>>, ub |-> FALSE]

\* the state of getcfgs before the first line
getcfgsInit ==
    [ret |-> <<"">>, deflist |-> <<>>, ndeflist |-> <<>>, defines |-> {},
     filelevel |-> 0, includeguard |-> FALSE, linenr |-> 0,
     returned |-> FALSE, errors |-> <<>>, ub |-> FALSE]

\* defines after a "#define " line
definesInsert(defines, line) ==
    IF ~CompareAt(line, 0, 8, "#define ") THEN defines
    ELSE IF Find(line, " ", 8) = NPOS THEN defines \cup {SubstrFrom(line, 8)}
    ELSE LET s == SubstrFrom(line, 8)
         IN  defines \cup {SetAt(s, Find(s, " ", 0), "=")}

\* the count without the stop at par < 0
parCountNoBreak(def, pos, par) ==
    par + Cardinality({p \in pos .. (Len(def) - 1) : At(def, p) = "("})
        - Cardinality({p \in pos .. (Len(def) - 1) : At(def, p) = ")"})

\* par after the loop that counts '(' and ')' and stops when par < 0
RECURSIVE parCount(_, _, _)
parCount(def, pos, par) ==
    IF pos >= Len(def) THEN par
    ELSE IF At(def, pos) = "(" THEN parCount(def, pos + 1, par + 1)
    ELSE IF At(def, pos) = ")"
         THEN IF par - 1 < 0 THEN par - 1 ELSE parCount(def, pos + 1, par - 1)
    ELSE parCount(def, pos + 1, par)

\* varmap: the defines that have a value
varmapOf(defines) ==
    LET withValue == {d \in defines : Find(d, "=", 0) # NPOS}
        names == {Substr(d, 0, Find(d, "=", 0)) : d \in withValue}
    IN  [n \in names |->
            \* a later element of the sorted set overwrites an earlier one
            LET ds == SetToSortedSeq({d \in withValue : Substr(d, 0, Find(d, "=", 0)) = n})
            IN  SubstrFrom(Back(ds), Find(Back(ds), "=", 0) + 1)]

\* the configuration that the frames of deflist spell
RECURSIVE deflistCfg(_, _, _)
deflistCfg(deflist, i, def) ==
    IF i > Len(deflist) THEN def
    ELSE IF deflist[i] = "0" THEN def
    ELSE IF deflist[i] = "1" \/ deflist[i] = "!" THEN deflistCfg(deflist, i + 1, def)
    ELSE IF def # deflist[i]
         THEN deflistCfg(deflist, i + 1, (IF def # "" THEN def \o ";" ELSE def) \o deflist[i])
    ELSE deflistCfg(deflist, i + 1, def)

\* mutant: the condition of a #elif is pushed under the frame of the #ifdef
deflistPushNested(deflist, line, def) == Append(deflist, def)

\* deflist after the push of a condition: a #elif replaces the last frame
deflistPush(deflist, line, def) ==
    Append(IF deflist # <<>> /\ Find(line, "#elif ", 0) = 0 THEN PopBack(deflist) ELSE deflist,
           def)

\* mutant: the configuration of a negated condition is not added to ret
getcfgsConditionNoNegation(g, line, def0, from_negation) ==
    IF parCount(def0, 0, 0) # 0
    THEN [g EXCEPT !.ret = <<>>, !.returned = TRUE,
                   !.errors = Append(g.errors, ParMismatchId)]
    ELSE LET def == simplifyCondition(varmapOf(g.defines), def0, FALSE)
             deflist1 == deflistPush(g.deflist, line, def)
             cfg == deflistCfg(deflist1, 1, "")
         IN  [g EXCEPT
                 !.deflist = IF from_negation THEN Append(PopBack(deflist1), "!") ELSE deflist1,
                 !.ndeflist = IF from_negation THEN Append(g.ndeflist, Back(deflist1))
                              ELSE g.ndeflist,
                 !.ret = IF Contains(g.ret, cfg) \/ from_negation THEN g.ret
                         ELSE Append(g.ret, cfg)]

\* a line that holds a condition (the branch "if (!def.empty())")
getcfgsCondition(g, line, def0, from_negation) ==
    IF parCount(def0, 0, 0) # 0
    THEN [g EXCEPT !.ret = <<>>, !.returned = TRUE,
                   !.errors = Append(g.errors, ParMismatchId)]
    ELSE LET def == simplifyCondition(varmapOf(g.defines), def0, FALSE)
             deflist1 == deflistPush(g.deflist, line, def)
             cfg == deflistCfg(deflist1, 1, "")
         IN  [g EXCEPT
                 !.deflist = IF from_negation THEN Append(PopBack(deflist1), "!") ELSE deflist1,
                 !.ndeflist = IF from_negation THEN Append(g.ndeflist, Back(deflist1))
                              ELSE g.ndeflist,
                 !.ret = IF Contains(g.ret, cfg) THEN g.ret ELSE Append(g.ret, cfg)]

\* "#else" with a frame open
getcfgsElse(g) ==
    IF Back(g.deflist) = "!"
    THEN IF g.ndeflist = <<>>
         THEN [g EXCEPT !.ub = TRUE]
         ELSE [g EXCEPT !.deflist = Append(PopBack(g.deflist), Back(g.ndeflist)),
                        !.ndeflist = PopBack(g.ndeflist)]
    ELSE [g EXCEPT !.deflist = Append(PopBack(g.deflist),
                                      IF Back(g.deflist) = "1" THEN "0" ELSE "1")]

\* "#endif" with a frame open
getcfgsEndif(g) ==
    IF Back(g.deflist) = "!"
    THEN IF g.ndeflist = <<>>
         THEN [g EXCEPT !.ub = TRUE]
         ELSE [g EXCEPT !.deflist = PopBack(g.deflist), !.ndeflist = PopBack(g.ndeflist)]
    ELSE [g EXCEPT !.deflist = PopBack(g.deflist)]

\* one iteration of "while (getline(istr, line))"
getcfgsLine(g0, line) ==
    LET g == [g0 EXCEPT !.linenr = g0.linenr + 1]
    IN  IF CompareAt(line, 0, 6, "#file ")
        THEN [g EXCEPT !.includeguard = TRUE, !.filelevel = g.filelevel + 1]
        ELSE IF line = "#endfile"
        THEN [g EXCEPT !.includeguard = FALSE,
                       !.filelevel = IF g.filelevel > 0 THEN g.filelevel - 1 ELSE 0]
        ELSE LET g1 == [g EXCEPT
                           !.defines = definesInsert(g.defines, line),
                           !.includeguard = IF line # "" /\ ~CompareAt(line, 0, 3, "#if")
                                            THEN FALSE ELSE g.includeguard]
                 defT == getdef(line, TRUE)
                 defF == getdef(line, FALSE)
             IN  IF g1.includeguard THEN g1
                 ELSE IF defT # "" THEN getcfgsCondition(g1, line, defT, FALSE)
                 ELSE IF defF # "" THEN getcfgsCondition(g1, line, defF, TRUE)
                 ELSE IF Find(line, "#else", 0) = 0 /\ g1.deflist # <<>> THEN getcfgsElse(g1)
                 ELSE IF Find(line, "#endif", 0) = 0 /\ g1.deflist # <<>> THEN getcfgsEndif(g1)
                 ELSE g1

(***************************************************************************)
(* Preprocessor::getcfgs: the passes over ret after the scan               *)
(***************************************************************************)
\* the name of a define: the part before "="
defineNameOf(d) == IF Find(d, "=", 0) # NPOS THEN EraseFrom(d, Find(d, "=", 0)) ELSE d

\* "Remove ifdef configurations that match the defineName": the while loop
RECURSIVE eraseDefine(_, _, _)
eraseDefine(cfg, defineName, pos0) ==
    LET pos1 == Find(cfg, defineName, pos0)
        pos2 == pos1 + Len(defineName)
    IN  IF pos1 = NPOS THEN cfg
        ELSE IF pos1 > 0 /\ At(cfg, pos1 - 1) # ";" THEN eraseDefine(cfg, defineName, pos1 + 1)
        ELSE IF pos2 < Len(cfg) /\ At(cfg, pos2) # ";" THEN eraseDefine(cfg, defineName, pos1 + 1)
        ELSE eraseDefine(Erase(cfg, pos1, Len(defineName)), defineName, pos1)

\* the loop over defines, in the order of the std::set
RECURSIVE eraseDefines(_, _)
eraseDefines(cfg, defs) ==
    IF defs = <<>> THEN cfg
    ELSE eraseDefines(eraseDefine(cfg, defineNameOf(Head(defs)), 0), Tail(defs))

RECURSIVE trimLeft(_)
trimLeft(cfg) == IF Len(cfg) > 0 /\ At(cfg, 0) = ";" THEN trimLeft(Erase(cfg, 0, 1)) ELSE cfg

RECURSIVE trimRight(_)
trimRight(cfg) ==
    IF Len(cfg) > 0 /\ At(cfg, Len(cfg) - 1) = ";" THEN trimRight(EraseFrom(cfg, Len(cfg) - 1))
    ELSE cfg

RECURSIVE eraseDoubled(_, _)
eraseDoubled(cfg, pos0) ==
    LET pos == Find(cfg, ";;", pos0)
    IN  IF pos = NPOS THEN cfg ELSE eraseDoubled(Erase(cfg, pos, 1), pos)

\* "Remove defined constants from ifdef configurations": one element of ret
stripDefines(it, defines) ==
    LET cfg == eraseDefines(it, SetToSortedSeq(defines))
    IN  IF Len(cfg) # Len(it) THEN eraseDoubled(trimRight(trimLeft(cfg)), 0) ELSE it

\* varList of the loop over the tokens of "defined(A) && defined(B)"
RECURSIVE andVarList(_, _)
andVarList(toks, i) ==
    IF i > Len(toks) THEN <<>>
    ELSE IF /\ toks[i] = "defined" /\ strAt(toks, i + 1) = "("
            /\ isName(strAt(toks, i + 2)) /\ strAt(toks, i + 3) = ")"
         THEN <<toks[i + 2]>> \o andVarList(toks, IF strAt(toks, i + 4) = "&&" THEN i + 5 ELSE i + 4)
    ELSE IF isName(toks[i]) /\ strAt(toks, i + 1) = ";"
         THEN <<toks[i]>> \o andVarList(toks, i + 2)
    ELSE <<>>

\* "convert configurations: defined(A) && defined(B) => A;B": one element of ret
convertAnd(it) ==
    IF Find(it, "&&", 0) = NPOS THEN it
    ELSE LET s == join(ListSort(andVarList(tokenize(it), 1)), ";")
         IN  IF s # "" THEN s ELSE it

\* mutant: the defines of a configuration are not sorted
canonicalCfgNoSort(it) == join(split(it, ";"), ";")

\* "Convert configurations into a canonical form": one element of ret
canonicalCfg(it) == join(ListSort(split(it, ";")), ";")

\* the scan of s = cfg + ";" in "cleanup unhandled configurations"
RECURSIVE unhandledFrom(_, _)
unhandledFrom(s, pos) ==
    IF pos >= Len(s) THEN FALSE
    ELSE IF At(s, pos) = ";" THEN unhandledFrom(s, pos + 1)
    ELSE IF isalpha(At(s, pos)) \/ At(s, pos) = "_"
         THEN LET e == identEnd(s, pos)
              IN  IF At(s, e) = "="
                  THEN LET d == CHOOSE k \in (e + 1) .. Len(s) :
                                    /\ ~isdigit(At(s, k))
                                    /\ \A j \in (e + 1) .. (k - 1) : isdigit(At(s, j))
                       IN  IF At(s, d) # ";" THEN TRUE ELSE unhandledFrom(s, d)
                  ELSE unhandledFrom(s, e)
    ELSE TRUE

\* mutant: no configuration is taken for unhandled
unhandledNone(cfg) == FALSE

unhandled(cfg) == unhandledFrom(cfg \o ";", 0)

SeqMap(Op(_), l) == [i \in 1 .. Len(l) |-> Op(l[i])]

RECURSIVE SeqFilterOut(_, _)
SeqFilterOut(Drop(_), l) ==
    IF l = <<>> THEN <<>>
    ELSE (IF Drop(Head(l)) THEN <<>> ELSE <<Head(l)>>) \o SeqFilterOut(Drop, Tail(l))

\* ret after "Remove duplicates from the ret list": sort, then unique
sortUnique(ret) == ListUnique(ListSort(ret))

\* the list that getcfgs returns when the scan reached the end of the text
getcfgsFinish(g) ==
    LET strip(it) == stripDefines(it, g.defines)
        ret1 == SeqMap(strip, g.ret)
        ret2 == SeqMap(convertAnd, ret1)
        ret3 == SeqMap(canonicalCfg, ret2)
    IN  SeqFilterOut(unhandled, sortUnique(ret3))

\* the scan of the whole text
RECURSIVE getcfgsScan(_, _)
getcfgsScan(g, lines) ==
    IF lines = <<>> \/ g.returned \/ g.ub THEN g
    ELSE getcfgsScan(getcfgsLine(g, Head(lines)), Tail(lines))

\* Preprocessor::getcfgs(filedata)
getcfgs(filedata) ==
    LET g == getcfgsScan(getcfgsInit, getlineAll(filedata))
    IN  IF g.returned THEN g.ret ELSE getcfgsFinish(g)

(***************************************************************************)
(* Preprocessor::getcode: the map of the configuration                     *)
(***************************************************************************)
\* cfgmap[key] = value
mapPut(map, key, value) ==
    [k \in (DOMAIN map) \cup {key} |-> IF k = key THEN value ELSE map[k]]

\* the map without an entry
emptyMap == [k \in {} |-> ""]

\* the loop "Create a map for the cfg" from position pos
RECURSIVE cfgmapFrom(_, _, _)
cfgmapFrom(cfg, pos, cfgmap) ==
    LET pos2 == FindFirstOf(cfg, {";", "="}, pos)
        pos3 == pos2
        end == Find(cfg, ";", pos2)
    IN  IF pos2 = NPOS THEN mapPut(cfgmap, SubstrFrom(cfg, pos), "")
        ELSE IF At(cfg, pos2) = ";"
        THEN cfgmapFrom(cfg, pos2 + 1, mapPut(cfgmap, Substr(cfg, pos, pos2 - pos), ""))
        ELSE IF end = NPOS
        THEN mapPut(cfgmap, Substr(cfg, pos, pos3 - pos), SubstrFrom(cfg, pos3 + 1))
        ELSE cfgmapFrom(cfg, end + 1,
                        mapPut(cfgmap, Substr(cfg, pos, pos3 - pos),
                               Substr(cfg, pos3 + 1, end - pos3 - 1)))

cfgmapOf(cfg) == cfgmapFrom(cfg, 0, emptyMap)

(***************************************************************************)
(* Preprocessor::getcode: one line of the selector                         *)
(***************************************************************************)
\* the locals of getcode before the first line.  inasm: the inner loop of a
\* "#pragma asm" block is reading.  History: nlines (the lines read), chains (for every open frame the
\* number of its branches that were matching, whether its #else was seen, and
\* whether a branch followed the #else), kept and blanked (the #define lines
\* written as they are, and the numbers of the #define lines written as
\* empty lines), errorline (the number of the #error line that made getcode
\* return), userDefines (settings && !settings->userDefines.empty()), errors
\* (the calls of writeError: line number, id, message)
getcodeInit(cfg) ==
    [ret |-> "", match |-> TRUE, matching_ifdef |-> <<>>, matched_ifdef |-> <<>>,
     cfgmap |-> cfgmapOf(cfg), lineno |-> 0, inasm |-> FALSE, returned |-> FALSE,
     ub |-> FALSE, nlines |-> 0, chains |-> <<>>, kept |-> {}, blanked |-> {},
     errorline |-> 0, userDefines |-> FALSE, errors |-> <<>>]

\* matching_ifdef.back() = value (and the same for matched_ifdef)
setBack(l, value) == [l EXCEPT ![Len(l)] = value]

\* match taken from the innermost frame only
allMatchingBack(matching_ifdef) ==
    matching_ifdef = <<>> \/ matching_ifdef[Len(matching_ifdef)]

\* match after the loop "match &= bool(*it)"
allMatching(matching_ifdef) == \A i \in 1 .. Len(matching_ifdef) : matching_ifdef[i]

\* cfgmap after a "#define " line
getcodeDefine(cfgmap, line) ==
    LET pos == FindFirstOf(line, {" ", "("}, 8)
    IN  IF pos = NPOS THEN mapPut(cfgmap, SubstrFrom(line, 8), "")
        ELSE IF At(line, pos) = " "
        THEN mapPut(cfgmap, Substr(line, 8, pos - 8), SubstrFrom(line, pos + 1))
        ELSE mapPut(cfgmap, Substr(line, 8, pos - 8), "")

\* the history of a frame whose newest branch has the matching flag m
chainBranch(chain, m, iselse) ==
    [trues |-> chain.trues + (IF m THEN 1 ELSE 0),
     elseSeen |-> chain.elseSeen \/ iselse,
     afterElse |-> chain.afterElse \/ chain.elseSeen]

\* "#elif ": back() of an empty list is undefined
getcodeElif(g, def) ==
    IF g.matched_ifdef = <<>> THEN [g EXCEPT !.ub = TRUE]
    ELSE LET branch(hit, m) ==
                 [g EXCEPT !.matching_ifdef = setBack(g.matching_ifdef, m),
                           !.matched_ifdef = IF hit THEN setBack(g.matched_ifdef, TRUE)
                                             ELSE g.matched_ifdef,
                           !.chains = setBack(g.chains, chainBranch(Back(g.chains), m, FALSE))]
             elif(hit) ==
                 branch(hit, IF Back(g.matched_ifdef) THEN FALSE
                             ELSE IF hit THEN TRUE
                             ELSE Back(g.matching_ifdef))
         IN  elif(~Back(g.matched_ifdef) /\ match_cfg_def(g.cfgmap, def))

\* "#ifdef", "#if" (negate = FALSE) and "#ifndef" (negate = TRUE)
getcodeIf(g, def, negate) ==
    LET push(m) ==
            [g EXCEPT !.matching_ifdef = Append(g.matching_ifdef, m),
                      !.matched_ifdef = Append(g.matched_ifdef, m),
                      !.chains = Append(g.chains,
                                        [trues |-> IF m THEN 1 ELSE 0, elseSeen |-> FALSE,
                                         afterElse |-> FALSE])]
    IN  push(match_cfg_def(g.cfgmap, def) # negate)

\* mutant: "#else" turns the branch on whatever matched before
getcodeElseAlways(g) ==
    IF g.matched_ifdef = <<>> THEN g
    ELSE [g EXCEPT !.matching_ifdef = setBack(g.matching_ifdef, TRUE),
                   !.chains = setBack(g.chains, chainBranch(Back(g.chains), TRUE, TRUE))]

\* "#else"
getcodeElse(g) ==
    IF g.matched_ifdef = <<>> THEN g
    ELSE LET m == ~Back(g.matched_ifdef)
         IN  [g EXCEPT !.matching_ifdef = setBack(g.matching_ifdef, m),
                       !.chains = setBack(g.chains, chainBranch(Back(g.chains), m, TRUE))]

\* "#endif"
getcodeEndif(g) ==
    [g EXCEPT !.matched_ifdef = IF g.matched_ifdef # <<>> THEN PopBack(g.matched_ifdef) ELSE <<>>,
              !.matching_ifdef = IF g.matching_ifdef # <<>> THEN PopBack(g.matching_ifdef)
                                 ELSE <<>>,
              !.chains = IF g.chains # <<>> THEN PopBack(g.chains) ELSE <<>>]

\* the if / else-if chain over the directives
getcodeDirective(g, line) ==
    LET rules(def, ndef) ==
            IF CompareAt(line, 0, 8, "#define ")
            THEN [g EXCEPT !.cfgmap = getcodeDefine(g.cfgmap, line)]
            ELSE IF Find(line, "#elif ", 0) = 0 THEN getcodeElif(g, def)
            ELSE IF def # "" THEN getcodeIf(g, def, FALSE)
            ELSE IF ndef # "" THEN getcodeIf(g, ndef, TRUE)
            ELSE IF line = "#else" THEN getcodeElse(g)
            ELSE IF CompareAt(line, 0, 6, "#endif") THEN getcodeEndif(g)
            ELSE g
    IN  rules(getdef(line, TRUE), getdef(line, FALSE))

\* mutant: a "#define " line is written whether the branch matches or not
getcodeRetainAll(match, line) ==
    IF \/ CompareAt(line, 0, 7, "#file \"")
       \/ CompareAt(line, 0, 8, "#endfile")
       \/ CompareAt(line, 0, 8, "#define ")
       \/ CompareAt(line, 0, 6, "#undef")
    THEN line
    ELSE IF ~match \/ CompareAt(line, 0, 1, "#") THEN ""
    ELSE line

\* mutant: a "#undef" line is written as an empty line
getcodeRetainNoUndef(match, line) ==
    IF ~match /\ CompareAt(line, 0, 8, "#define ") THEN ""
    ELSE IF \/ CompareAt(line, 0, 7, "#file \"")
            \/ CompareAt(line, 0, 8, "#endfile")
            \/ CompareAt(line, 0, 8, "#define ")
    THEN line
    ELSE IF ~match \/ CompareAt(line, 0, 1, "#") THEN ""
    ELSE line

\* the line that is written to ret
getcodeRetain(match, line) ==
    IF ~match /\ CompareAt(line, 0, 8, "#define ") THEN ""
    ELSE IF \/ CompareAt(line, 0, 7, "#file \"")
            \/ CompareAt(line, 0, 8, "#endfile")
            \/ CompareAt(line, 0, 8, "#define ")
            \/ CompareAt(line, 0, 6, "#undef")
    THEN line
    ELSE IF ~match \/ CompareAt(line, 0, 1, "#") THEN ""
    ELSE line

\* mutant: the line that closes a "#pragma asm" block is not written
getcodeAsmLineNoEnd(g, line) ==
    IF ~CompareAt(line, 0, 14, "#pragma endasm")
    THEN [g EXCEPT !.nlines = g.nlines + 1, !.ret = g.ret \o "\n"]
    ELSE [g EXCEPT !.inasm = FALSE, !.nlines = g.nlines + 1]

\* a line read by the inner loop of a "#pragma asm" block
getcodeAsmLine(g, line) ==
    LET toks == tokenize(Erase(line, 0, 15))
    IN  IF ~CompareAt(line, 0, 14, "#pragma endasm")
        THEN [g EXCEPT !.nlines = g.nlines + 1, !.ret = g.ret \o "\n"]
        ELSE IF /\ Find(line, "=", 0) # NPOS
                /\ strAt(toks, 1) = "(" /\ isName(strAt(toks, 2)) /\ strAt(toks, 3) = "="
                /\ strAt(toks, 4) # "" /\ strAt(toks, 5) = ")"
        THEN [g EXCEPT !.inasm = FALSE, !.nlines = g.nlines + 1,
                       !.ret = g.ret \o "asm(" \o toks[2] \o ");" \o "\n"]
        ELSE [g EXCEPT !.inasm = FALSE, !.nlines = g.nlines + 1, !.ret = g.ret \o "\n"]

\* one line read by getline in getcode
getcodeLine(g0, line) ==
    LET g == [g0 EXCEPT !.lineno = g0.lineno + 1, !.nlines = g0.nlines + 1]
        isdefine == CompareAt(line, 0, 8, "#define ")
        write(g1, match) ==
            IF match /\ CompareAt(line, 0, 6, "#error")
            THEN [g1 EXCEPT
                     !.match = match, !.returned = TRUE, !.errorline = g.nlines,
                     !.errors = IF g1.userDefines
                                THEN Append(g1.errors,
                                            <<g1.lineno, "preprocessorErrorDirective", line>>)
                                ELSE g1.errors]
            ELSE [g1 EXCEPT
                     !.match = match,
                     !.ret = g.ret \o getcodeRetain(match, line) \o "\n",
                     !.kept = IF isdefine /\ match THEN g.kept \cup {<<g.nlines, line>>}
                              ELSE g.kept,
                     !.blanked = IF isdefine /\ ~match THEN g.blanked \cup {g.nlines}
                                 ELSE g.blanked]
        select(g1) ==
            IF g1.ub THEN g1
            ELSE write(g1, IF line # "" /\ At(line, 0) = "#"
                           THEN allMatching(g1.matching_ifdef)
                           ELSE g1.match)
    IN  IF g0.inasm THEN getcodeAsmLine(g0, line)
        ELSE IF CompareAt(line, 0, 11, "#pragma asm")
        THEN [g EXCEPT !.inasm = TRUE, !.ret = g.ret \o "\n"]
        ELSE select(getcodeDirective(g, line))

\* the selector over all the lines of a text
RECURSIVE getcodeScan(_, _)
getcodeScan(g, lines) ==
    IF lines = <<>> \/ g.returned \/ g.ub THEN g
    ELSE getcodeScan(getcodeLine(g, Head(lines)), Tail(lines))

(***************************************************************************)
(* getlines: the next statement or directive of a stream.  A stream is the *)
(* text and the read position p; p beyond the length: the stream is not    *)
(* good (a get or a peek met the end)                                      *)
(***************************************************************************)
\* the loop over a string or char constant that began with ch; c is the last
\* character read; ret: getlines returns from inside the loop
RECURSIVE getlinesQuote(_, _, _, _, _)
getlinesQuote(code, p, line, ch, c) ==
    LET esc == c = "\\"
        p1 == IF esc THEN p + 1 ELSE p
        line1 == IF esc THEN line \o At(code, p) ELSE line
        c1 == At(code, p1)
    IN  IF c = ch THEN [line |-> line, p |-> p, ret |-> FALSE]
        ELSE IF esc /\ p >= Len(code) THEN [line |-> line, p |-> Len(code) + 1, ret |-> TRUE]
        ELSE IF p1 >= Len(code) THEN [line |-> line1, p |-> Len(code) + 1, ret |-> TRUE]
        ELSE IF c1 = "\n" /\ StartsWith(line1, "#")
        THEN [line |-> line1, p |-> p1 + 1, ret |-> TRUE]
        ELSE getlinesQuote(code, p1 + 1, line1 \o c1, ch, c1)

\* the for loop of getlines: <<line, position of the stream>>; the characters
\* before the next one of ' " ( ) ; and '\n' are only added to line
RECURSIVE getlinesFrom(_, _, _, _)
getlinesFrom(code, p0, line0, parlevel) ==
    LET p == Min({i \in p0 .. Len(code) :
                     i = Len(code) \/ At(code, i) \in {"'", "\"", "(", ")", ";", "\n"}})
        line == line0 \o Substr(code, p0, p - p0)
        ch == At(code, p)
        q == getlinesQuote(code, p + 1, line \o ch, ch, "")
    IN  IF p >= Len(code) THEN <<line, Len(code) + 1>>
        ELSE IF ch \in {"'", "\""}
        THEN IF q.ret THEN <<q.line, q.p>> ELSE getlinesFrom(code, q.p, q.line, parlevel)
        ELSE IF ch = "(" THEN getlinesFrom(code, p + 1, line \o ch, parlevel + 1)
        ELSE IF ch = ")" THEN getlinesFrom(code, p + 1, line \o ch, parlevel - 1)
        ELSE IF ch = "\n"
        THEN IF StartsWith(line, "#") THEN <<line, p + 1>>
             ELSE IF p + 1 >= Len(code) THEN <<line \o ch, Len(code) + 1>>
             ELSE IF At(code, p + 1) = "#" THEN <<line \o ch, p + 1>>
             ELSE getlinesFrom(code, p + 1, line \o ch, parlevel)
        ELSE IF ~StartsWith(line, "#") /\ parlevel <= 0 /\ ch = ";" THEN <<line \o ";", p + 1>>
        ELSE getlinesFrom(code, p + 1, line \o ch, parlevel)

getlines(code, p) == getlinesFrom(code, p, "", 0)

(***************************************************************************)
(* PreprocessorMacro and Preprocessor::expandMacros, for macros that are   *)
(* defined without parentheses: _params is empty, _variadic and _nopar are *)
(* false.  macros maps a macro's name to the text after "#define "         *)
(***************************************************************************)
\* _name: the first token of the definition if it is a name
macroName(macro) ==
    LET toks == tokenize(macro)
    IN  IF toks # <<>> /\ isName(toks[1]) THEN toks[1] ELSE ""

\* PreprocessorMacro::code, the branch "_params.empty()"
macroCode(macro) ==
    LET pos == Find(macro, " ", 0)
        macrocode == SubstrFrom(macro, pos + 1)
        nl == FindFirstOf(macrocode, {"\r", "\n"}, 0)
    IN  IF pos = NPOS THEN ""
        ELSE IF nl # NPOS THEN EraseFrom(macrocode, nl)
        ELSE macrocode

\* macros.erase(it)
mapRemove(map, key) == [k \in (DOMAIN map) \ {key} |-> map[k]]

\* skipstring(line, pos): pos after the call
RECURSIVE skipstringFrom(_, _, _)
skipstringFrom(line, pos, ch) ==
    IF pos < Len(line) /\ At(line, pos) # ch
    THEN skipstringFrom(line, IF At(line, pos) = "\\" THEN pos + 2 ELSE pos + 1, ch)
    ELSE pos

skipstring(line, pos) == skipstringFrom(line, pos + 1, At(line, pos))

\* the loop "found an identifier": limits maps a macro (its name) to its limit;
\* line.length() - limit is computed in unsigned arithmetic
RECURSIVE expandIdentifier(_, _, _, _)
expandIdentifier(line, pos, limits, macros) ==
    LET pos1 == pos
        pos2 == identEnd(line, pos + 1)
        id == Substr(line, pos1, pos2 - pos1)
        limited == /\ id \in DOMAIN limits
                   /\ (limits[id] > Len(line) \/ pos2 <= Len(line) - limits[id])
        limits1 == [m \in {k \in DOMAIN limits : ~(Len(line) - pos1 < limits[k])} \cup {id} |->
                       IF m = id THEN Len(line) - pos2 ELSE limits[m]]
        line1 == Erase(line, pos1, pos2 - pos1)
        macrocode == IF isalnum(At(line1, pos1)) \/ At(line1, pos1) = "_"
                     THEN macroCode(macros[id]) \o " "
                     ELSE macroCode(macros[id])
    IN  IF ~(pos < Len(line) /\ (isalpha(At(line, pos)) \/ At(line, pos) = "_"))
        THEN [line |-> line, pos |-> pos, limits |-> limits]
        ELSE IF id \notin DOMAIN macros \/ limited
        THEN [line |-> line, pos |-> pos2, limits |-> limits]
        ELSE expandIdentifier(Insert(line1, pos1, macrocode), pos1, limits1, macros)

\* the loop "scan line to see if there are any macros to expand"
RECURSIVE expandLine(_, _, _, _)
expandLine(line, pos, limits, macros) ==
    LET e == skipstring(line, pos) + 1
        r == expandIdentifier(line,
                              IF ~isalpha(At(line, pos)) /\ At(line, pos) # "_"
                              THEN pos + 1 ELSE pos,
                              limits, macros)
    IN  IF pos >= Len(line) THEN [line |-> line, error |-> ""]
        ELSE IF At(line, pos) \in {"\"", "'"}
        THEN IF e >= Len(line) THEN [line |-> line, error |-> "noQuoteCharPair"]
             ELSE expandLine(line, e, limits, macros)
        ELSE expandLine(r.line, r.pos, r.limits, macros)

\* the loop "while (getlines(istr, line))" from stream position p
RECURSIVE expandMacrosFrom(_, _, _, _)
expandMacrosFrom(code, p, macros, ostr) ==
    LET gl == getlines(code, p)
        line == gl[1]
        name == macroName(SubstrFrom(line, 8))
        ex == expandLine(line, 0, emptyMap, macros)
    IN  IF p > Len(code) THEN [text |-> ostr, error |-> ""]
        ELSE IF CompareAt(line, 0, 8, "#define ")
        THEN expandMacrosFrom(code, gl[2],
                              IF name = "" THEN macros
                              ELSE mapPut(macros, name, SubstrFrom(line, 8)),
                              ostr \o "\n")
        ELSE IF CompareAt(line, 0, 7, "#undef ")
        THEN expandMacrosFrom(code, gl[2], mapRemove(macros, SubstrFrom(line, 7)), ostr \o "\n")
        ELSE IF CompareAt(line, 0, 1, "#")
        THEN expandMacrosFrom(code, gl[2], macros, ostr \o line \o "\n")
        ELSE IF ex.error # "" THEN [text |-> "", error |-> ex.error]
        ELSE expandMacrosFrom(code, gl[2], macros, ostr \o ex.line)

\* Preprocessor::expandMacros(code): the text returned and the error reported
expandMacros(code) == expandMacrosFrom(code, 0, emptyMap, "")

\* mutant: the text read before an active #error is expanded and returned
getcodeReturnNoError(g) == expandMacros(g.ret)

\* the value getcode returns, and the error expandMacros reported: "" after an
\* active #error, else expandMacros(ret.str())
getcodeReturn(g) == IF g.returned THEN [text |-> "", error |-> ""] ELSE expandMacros(g.ret)

\* Preprocessor::getcode(filedata, cfg)
getcode(filedata, cfg) ==
    getcodeReturn(getcodeScan(getcodeInit(cfg), getlineAll(filedata))).text

(***************************************************************************)
(* Tokenizer::createTokens on the text of a macro definition: names and    *)
(* numbers, "##", '#' with the name after it, string constants, and every  *)
(* other character a token of its own; blanks separate tokens              *)
(***************************************************************************)
RECURSIVE createTokens(_)
createTokens(s) ==
    LET cut(n) == <<Substr(s, 0, n)>> \o createTokens(SubstrFrom(s, n))
    IN  IF s = "" THEN <<>>
        ELSE IF At(s, 0) \in {" ", "\n"} THEN createTokens(SubstrFrom(s, 1))
        ELSE IF isIdentChar(At(s, 0)) THEN cut(identEnd(s, 0))
        ELSE IF Substr(s, 0, 2) = "##" THEN cut(2)
        ELSE IF At(s, 0) = "#" /\ isIdentChar(At(s, 1)) THEN cut(identEnd(s, 1))
        ELSE IF At(s, 0) \in {"\"", "'"} THEN cut(Min({Len(s), skipstring(s, 0) + 1}))
        ELSE cut(1)

\* Token::Match(tok, "%var%"), "%num%", and a literal, for the token at index i
\* of a list (no token beyond the end)
tokIsName(toks, i) == i >= 1 /\ i <= Len(toks) /\ isName(toks[i])
tokIsNumber(toks, i) == i >= 1 /\ i <= Len(toks) /\ isNumber(toks[i])
tokIs(toks, i, str) == i >= 1 /\ i <= Len(toks) /\ toks[i] = str

\* the index of the first token ")" of a list, or 0
firstClose(toks) ==
    LET ps == {i \in 1 .. Len(toks) : toks[i] = ")"}
    IN  IF ps = {} THEN 0 ELSE Min(ps)

(***************************************************************************)
(* class PreprocessorMacro                                                 *)
(***************************************************************************)
\* the loop "Extract macro parameters" from the token at index i
RECURSIVE macroParams(_, _, _)
macroParams(toks, i, params) ==
    IF i > Len(toks) \/ toks[i] = ")" THEN [params |-> params, variadic |-> FALSE]
    ELSE IF tokIs(toks, i, ".") /\ tokIs(toks, i + 1, ".") /\ tokIs(toks, i + 2, ".")
            /\ tokIs(toks, i + 3, ")")
    THEN [params |-> params, variadic |-> TRUE]
    ELSE macroParams(toks, i + 1, IF isName(toks[i]) THEN Append(params, toks[i]) ELSE params)

\* PreprocessorMacro::PreprocessorMacro(macro); id: the object that new returned
PreprocessorMacro(macro) ==
    LET toks == createTokens(macro)
        pos == FindFirstOf(macro, {" ", "("}, 0)
        ps == macroParams(toks, 3, <<>>)
        base == [id |-> 0, macro |-> macro, tokens |-> toks,
                 name |-> IF tokIsName(toks, 1) THEN toks[1] ELSE "",
                 params |-> <<>>, variadic |-> FALSE, nopar |-> FALSE]
    IN  IF pos = NPOS \/ At(macro, pos) # "(" THEN base
        ELSE IF tokIsName(toks, 1) /\ tokIs(toks, 2, "(") /\ tokIsName(toks, 3)
        THEN [base EXCEPT !.params = ps.params, !.variadic = ps.variadic]
        ELSE IF tokIsName(toks, 1) /\ tokIs(toks, 2, "(") /\ tokIs(toks, 3, ".")
                /\ tokIs(toks, 4, ".") /\ tokIs(toks, 5, ".") /\ tokIs(toks, 6, ")")
        THEN [base EXCEPT !.variadic = TRUE]
        ELSE IF tokIsName(toks, 1) /\ tokIs(toks, 2, "(") /\ tokIs(toks, 3, ")")
        THEN [base EXCEPT !.nopar = TRUE]
        ELSE base

(***************************************************************************)
(* getparams(line, pos, params, numberOfNewlines, endFound)                *)
(***************************************************************************)
\* the for loop "scan for parameters"; g holds pos, parlevel, par and the
\* output parameters
RECURSIVE getparamsFrom(_, _)
getparamsFrom(line, g) ==
    LET c == At(line, g.pos)
        next(h) == getparamsFrom(line, [h EXCEPT !.pos = h.pos + 1])
        end == skipstring(line, g.pos)
        \* the tests after the parenthesis, string and newline branches
        rest(h) ==
            IF h.parlevel = 1 /\ c = ","
            THEN next([h EXCEPT !.params = Append(h.params, h.par), !.par = ""])
            ELSE IF c = " "
            THEN next(IF h.par # "" /\ isalnum(At(h.par, Len(h.par) - 1))
                      THEN [h EXCEPT !.par = h.par \o " "]
                      ELSE h)
            ELSE IF h.parlevel >= 1 THEN next([h EXCEPT !.par = h.par \o c])
            ELSE next(h)
    IN  IF g.pos >= Len(line) THEN g
        ELSE IF c = "("
        THEN IF g.parlevel + 1 = 1 THEN next([g EXCEPT !.parlevel = 1])
             ELSE rest([g EXCEPT !.parlevel = g.parlevel + 1])
        ELSE IF c = ")"
        THEN IF g.parlevel - 1 <= 0
             THEN [g EXCEPT !.parlevel = g.parlevel - 1, !.endFound = TRUE,
                            !.params = Append(g.params, g.par)]
             ELSE rest([g EXCEPT !.parlevel = g.parlevel - 1])
        ELSE IF c \in {"\"", "'"}
        THEN IF end = Len(line) THEN [g EXCEPT !.pos = end]
             ELSE getparamsFrom(line, [g EXCEPT !.pos = end + 1,
                                                !.par = g.par \o Substr(line, g.pos,
                                                                        end + 1 - g.pos)])
        ELSE IF c = "\n"
        THEN next([g EXCEPT !.numberOfNewlines = g.numberOfNewlines + 1])
        ELSE rest(g)

getparams(line, pos) ==
    LET pos1 == IF At(line, pos) = " " THEN pos + 1 ELSE pos
        g == [pos |-> pos1, parlevel |-> 0, par |-> "", params |-> <<>>,
              numberOfNewlines |-> 0, endFound |-> FALSE]
    IN  IF At(line, pos1) # "(" THEN g ELSE getparamsFrom(line, g)

(***************************************************************************)
(* PreprocessorMacro::code and PreprocessorMacro::expandInnerMacros        *)
(***************************************************************************)
\* the parameters joined with ","
RECURSIVE joinParams(_, _)
joinParams(params, from) ==
    IF from > Len(params) THEN ""
    ELSE params[from] \o (IF from < Len(params) THEN "," ELSE "") \o joinParams(params, from + 1)

\* while ((pos = macrocode.find("__VA_ARGS__", pos)) != npos) { erase; insert; }
RECURSIVE replaceVaArgs(_, _, _)
replaceVaArgs(macrocode, s, pos0) ==
    LET pos == Find(macrocode, "__VA_ARGS__", pos0)
    IN  IF pos = NPOS THEN macrocode
        ELSE replaceVaArgs(Insert(Erase(macrocode, pos, 11), pos, s), s, pos + Len(s))

\* the branch "_nopar || (_params.empty() && _variadic)"
codeNopar(m, params2) ==
    LET macrocode == SubstrFrom(m.macro, 1 + Find(m.macro, ")", 0))
        sp == FindFirstNotOf(macrocode, {" "})
        stripped == IF sp = NPOS THEN "" ELSE IF sp > 0 THEN Erase(macrocode, 0, sp)
                    ELSE macrocode
        nl == FindFirstOf(stripped, {"\r", "\n"}, 0)
        cut == IF nl # NPOS THEN EraseFrom(stripped, nl) ELSE stripped
    IN  IF macrocode = "" THEN ""
        ELSE IF m.nopar THEN cut
        ELSE replaceVaArgs(cut, joinParams(params2, 1), 0)

\* the argument text between double quotes, '\' and '"' escaped
RECURSIVE stringifyFrom(_, _)
stringifyFrom(s, j) ==
    IF j >= Len(s) THEN ""
    ELSE (IF At(s, j) \in {"\\", "\""} THEN "\\" ELSE "") \o At(s, j) \o stringifyFrom(s, j + 1)

\* mutant: the argument text between double quotes, nothing escaped
stringifyPlain(s) == "\"" \o s \o "\""

\* the branch "else if (stringify)": the text of the parameter between double
\* quotes, a backslash before each backslash and double quote
stringify(s) == "\"" \o stringifyFrom(s, 0) \o "\""


\* the text of the variadic position: givenparams from index size - 1 on (from
\* 0), a "," before each but the first, and before the first after ", ##"
RECURSIVE variadicText(_, _, _, _)
variadicText(m, givenparams, j, optcomma) ==
    IF j >= Len(givenparams) THEN ""
    ELSE (IF optcomma \/ j > Len(m.params) - 1 THEN "," ELSE "") \o givenparams[j + 1]
         \o variadicText(m, givenparams, j + 1, FALSE)

RECURSIVE PreprocessorMacro_code(_, _, _)
RECURSIVE expandInnerMacros(_, _, _)

\* the loop "while ((tok = tok->next()) != NULL)" of code, at token index k
RECURSIVE codeTokens(_, _, _, _, _)
codeTokens(m, givenparams, k, optcomma, macrocode) ==
    LET toks == m.tokens
        tok == toks[k]
        isstringify == At(tok, 0) = "#"
        str0 == IF isstringify THEN Erase(tok, 0, 1) ELSE tok
        hits == {i \in 0 .. (Len(m.params) - 1) : m.params[i + 1] = str0}
        i == Min(hits)
        isvariadic == /\ m.variadic
                      /\ \/ i = Len(m.params) - 1
                         \/ Len(givenparams) + 2 = Len(m.params) /\ i + 1 = Len(m.params) - 1
        str == IF ~(isstringify \/ isName(tok)) \/ hits = {} THEN str0
               ELSE IF isvariadic
               THEN variadicText(m, givenparams, Len(m.params) - 1, optcomma)
               ELSE IF isstringify THEN stringify(givenparams[i + 1])
               ELSE givenparams[i + 1]
        space == \/ tokIsName(toks, k) /\ tokIsName(toks, k + 1)
                 \/ tokIsName(toks, k) /\ tokIsNumber(toks, k + 1)
                 \/ tokIsNumber(toks, k) /\ tokIsName(toks, k + 1)
                 \/ tokIs(toks, k, ">") /\ tokIs(toks, k + 1, ">")
    IN  IF k > Len(toks) THEN [ok |-> TRUE, macrocode |-> macrocode]
        ELSE IF tok = "##" THEN codeTokens(m, givenparams, k + 1, optcomma, macrocode)
        ELSE IF (isstringify \/ isName(tok)) /\ hits # {} /\ ~isvariadic
                /\ i >= Len(givenparams)
        THEN [ok |-> FALSE, macrocode |-> ""]
        ELSE IF m.variadic /\ tok = "," /\ tokIs(toks, k + 1, "##")
        THEN codeTokens(m, givenparams, k + 1, TRUE, macrocode)
        ELSE codeTokens(m, givenparams, k + 1, FALSE,
                        macrocode \o str \o (IF space THEN " " ELSE ""))

\* PreprocessorMacro::code(params2, macros, macrocode): the value returned and
\* macrocode
PreprocessorMacro_code(m, params2, macros) ==
    LET pos == Find(m.macro, " ", 0)
        body == SubstrFrom(m.macro, pos + 1)
        nl == FindFirstOf(body, {"\r", "\n"}, 0)
        close == firstClose(m.tokens)
    IN  IF m.nopar \/ (m.params = <<>> /\ m.variadic)
        THEN [ok |-> TRUE, macrocode |-> codeNopar(m, params2)]
        ELSE IF m.params = <<>>
        THEN [ok |-> TRUE,
              macrocode |-> IF pos = NPOS THEN ""
                            ELSE IF nl # NPOS THEN EraseFrom(body, nl) ELSE body]
        ELSE IF close = 0 THEN [ok |-> TRUE, macrocode |-> ""]
        ELSE codeTokens(m, expandInnerMacros(m, params2, macros), close + 1, FALSE, "")

\* the number of "%var% ,|)" pairs from the token at index k, and the index
\* after them
RECURSIVE innerArgs(_, _, _)
innerArgs(toks, k, par) ==
    IF tokIsName(toks, k) /\ (tokIs(toks, k + 1, ",") \/ tokIs(toks, k + 1, ")"))
    THEN innerArgs(toks, k + 2, par + 1)
    ELSE [k |-> k, par |-> par]

\* PreprocessorMacro::expandInnerMacros(params1, macros)
expandInnerMacros(m, params1, macros) ==
    LET toks == m.tokens
        close == firstClose(toks)
        innerMacroName == toks[close + 1]
        args == innerArgs(toks, close + 3, 0)
        s == innerMacroName \o "("
        inner(param) ==
            LET g == getparams(param, Len(s) - 1)
            IN  IF /\ StartsWith(param, s)
                   /\ At(param, Len(param) - 1) = ")"
                   /\ g.pos = Len(param) - 1
                   /\ g.numberOfNewlines = 0
                   /\ g.endFound
                   /\ Len(g.params) = Len(params1)
                   /\ innerMacroName \in DOMAIN macros
                THEN PreprocessorMacro_code(macros[innerMacroName], g.params,
                                            mapRemove(macros, innerMacroName)).macrocode
                ELSE param
    IN  IF ~(close > 0 /\ tokIsName(toks, close + 1) /\ tokIs(toks, close + 2, "("))
        THEN params1
        ELSE IF args.k <= Len(toks) \/ args.par # Len(params1) THEN params1
        ELSE [ipar \in 1 .. Len(params1) |-> inner(params1[ipar])]

(***************************************************************************)
(* Preprocessor::expandMacros, one step at a time.  The locals: istr (the  *)
(* text code and the read position p), ostr, macros (name |-> the macro),  *)
(* linenr, fileinfo, filename, and inside "expand macros..": line, pos,    *)
(* limits (the macro's name |-> limit), tmpLinenr.  inline: the loop over  *)
(* the line runs.  The heap: allocated (the number of macros that new      *)
(* made) and deleted (the ids that were deleted, in order).  expanded: the *)
(* last macro expanded in the line and the positions of its text           *)
(***************************************************************************)
NoExpansion == [name |-> "", from |-> 0, to |-> 0]

expandMacrosInit(code) ==
    [code |-> code, p |-> 0, ostr |-> "", macros |-> emptyMap, linenr |-> 1,
     fileinfo |-> <<>>, filename |-> "", inline |-> FALSE, line |-> "", pos |-> 0,
     limits |-> emptyMap, tmpLinenr |-> 0, returned |-> FALSE, text |-> "",
     errors |-> <<>>, allocated |-> 0, deleted |-> <<>>, expanded |-> NoExpansion,
     steps |-> 0]

\* for (it = macros.begin(); it != macros.end(); ++it) delete it->second;
deleteMacros(macros, deleted) ==
    LET names == SetToSortedSeq(DOMAIN macros)
    IN  deleted \o [i \in 1 .. Len(names) |-> macros[names[i]].id]

\* mutant: the error is reported and "" returned, the macros are not deleted
expandMacrosErrorLeak(e, id) ==
    [e EXCEPT !.errors = Append(e.errors, <<e.linenr + e.tmpLinenr, id>>),
              !.inline = FALSE, !.returned = TRUE, !.text = ""]

\* writeError(...); delete every macro; return "";
expandMacrosError(e, id) ==
    [e EXCEPT !.errors = Append(e.errors, <<e.linenr + e.tmpLinenr, id>>),
              !.deleted = deleteMacros(e.macros, e.deleted),
              !.inline = FALSE, !.returned = TRUE, !.text = ""]

\* ostr << line; and the update of linenr
expandMacrosWrite(e, line) ==
    [e EXCEPT !.ostr = e.ostr \o line,
              !.linenr = e.linenr + countNewlines(line, 0, Len(line) - 1),
              !.inline = FALSE]

\* mutant: a macro that is defined again replaces the old one, which is kept
defineMacroKeep(e, macro) ==
    LET m == [PreprocessorMacro(macro) EXCEPT !.id = e.allocated + 1]
    IN  IF m.name = ""
        THEN [e EXCEPT !.allocated = m.id, !.deleted = Append(e.deleted, m.id)]
        ELSE [e EXCEPT !.allocated = m.id, !.macros = mapPut(e.macros, m.name, m)]

\* the branch "defining a macro.." for the text after "#define "
defineMacro(e, macro) ==
    LET m == [PreprocessorMacro(macro) EXCEPT !.id = e.allocated + 1]
    IN  IF m.name = ""
        THEN [e EXCEPT !.allocated = m.id, !.deleted = Append(e.deleted, m.id)]
        ELSE [e EXCEPT !.allocated = m.id,
                       !.deleted = IF m.name \in DOMAIN e.macros
                                   THEN Append(e.deleted, e.macros[m.name].id)
                                   ELSE e.deleted,
                       !.macros = mapPut(e.macros, m.name, m)]

\* the branch "undefining a macro.." for the text after "#undef "
undefMacro(e, name) ==
    IF name \in DOMAIN e.macros
    THEN [e EXCEPT !.deleted = Append(e.deleted, e.macros[name].id),
                   !.macros = mapRemove(e.macros, name)]
    ELSE e

\* while (getlines(istr, line)): the next line and the branches for the lines
\* that begin with '#'; another line starts the loop over the line; at the end
\* of the stream every macro is deleted and ostr.str() is returned
expandMacrosGetlines(e) ==
    LET next(line, p) ==
            LET e1 == [e EXCEPT !.p = p]
            IN  IF CompareAt(line, 0, 8, "#define ")
                THEN expandMacrosWrite(defineMacro(e1, SubstrFrom(line, 8)), "\n")
                ELSE IF CompareAt(line, 0, 7, "#undef ")
                THEN expandMacrosWrite(undefMacro(e1, SubstrFrom(line, 7)), "\n")
                ELSE IF CompareAt(line, 0, 7, "#file \"")
                THEN expandMacrosWrite(
                         [e1 EXCEPT !.fileinfo = Append(e.fileinfo, <<e.linenr, e.filename>>),
                                    !.filename = Substr(line, 7, Len(line) - 8),
                                    !.linenr = 0],
                         line \o "\n")
                ELSE IF line = "#endfile"
                THEN expandMacrosWrite(
                         IF e.fileinfo = <<>> THEN e1
                         ELSE [e1 EXCEPT !.linenr = Back(e.fileinfo)[1],
                                         !.filename = Back(e.fileinfo)[2],
                                         !.fileinfo = PopBack(e.fileinfo)],
                         line \o "\n")
                ELSE IF CompareAt(line, 0, 1, "#") THEN expandMacrosWrite(e1, line \o "\n")
                ELSE [e1 EXCEPT !.inline = TRUE, !.line = line, !.pos = 0, !.steps = 0,
                                !.limits = emptyMap, !.tmpLinenr = 0,
                                !.expanded = NoExpansion]
        got(gl) == next(gl[1], gl[2])
    IN  IF e.p > Len(e.code)
        THEN [e EXCEPT !.deleted = deleteMacros(e.macros, e.deleted),
                       !.returned = TRUE, !.text = e.ostr]
        ELSE got(getlines(e.code, e.p))

\* mutant: the limit of the macro is not looked at
limitedNever(limits, id, line, pos) == FALSE

\* "check that pos is within allowed limits for this macro"; line.length() -
\* limit is computed in unsigned arithmetic
limited(limits, id, line, pos) ==
    /\ id \in DOMAIN limits
    /\ (limits[id] > Len(line) \/ pos <= Len(line) - limits[id])

\* "Remove old limits" and limits[macro] = line.length() - pos2
limitsUpdate(limits, id, line, pos1, pos2) ==
    [m \in {k \in DOMAIN limits : ~(Len(line) - pos1 < limits[k])} \cup {id} |->
        IF m = id THEN Len(line) - pos2 ELSE limits[m]]

\* one iteration of the loop "found an identifier", with the identifier at pos
expandMacrosIdentifier(e) ==
    LET line == e.line
        pos1 == e.pos
        pos == identEnd(line, e.pos + 1)
        id == Substr(line, pos1, pos - pos1)
        break == [e EXCEPT !.pos = pos]
        insert(macro, pos2, macrocode) ==
            LET line1 == Erase(line, pos1, pos2 - pos1)
                glued == IF isalnum(At(line1, pos1)) \/ At(line1, pos1) = "_"
                         THEN macrocode \o " " ELSE macrocode
            IN  [e EXCEPT !.limits = limitsUpdate(e.limits, id, line, pos1, pos2),
                          !.line = Insert(line1, pos1, glued),
                          !.pos = pos1,
                          !.expanded = [name |-> id, from |-> pos1,
                                        to |-> pos1 + Len(glued)]]
        create(macro, params, n, pos2) ==
            LET made(c) ==
                    IF ~c.ok THEN expandMacrosError(break, "syntaxError")
                    ELSE insert(macro, pos2, Newlines(n) \o c.macrocode)
            IN  IF ~macro.variadic /\ Len(params) # Len(macro.params) THEN break
                ELSE made(PreprocessorMacro_code(macro, params, e.macros))
        call(macro) ==
            LET got(g) ==
                    IF ~g.endFound THEN break
                    ELSE create(macro, IF g.params = <<"">> THEN <<>> ELSE g.params,
                                g.numberOfNewlines, g.pos + 1)
            IN  IF macro.params # <<>> /\ pos >= Len(line) THEN break
                ELSE IF macro.variadic \/ macro.nopar \/ macro.params # <<>>
                THEN got(getparams(line, pos))
                ELSE create(macro, <<>>, 0, pos)
    IN  IF id \notin DOMAIN e.macros THEN break
        ELSE IF limited(e.limits, id, line, pos) THEN break
        ELSE call(e.macros[id])

\* one iteration of the loop "scan line to see if there are any macros to
\* expand": a string constant, or a character that begins no name, or one
\* iteration of the loop over the name at pos; after the loop the line is
\* written
expandMacrosScan(e0) ==
    LET e == [e0 EXCEPT !.steps = e0.steps + 1]
        line == e.line
        c == At(line, e.pos)
        e1 == IF c = "\n" THEN [e EXCEPT !.tmpLinenr = e.tmpLinenr + 1] ELSE e
        end == skipstring(line, e.pos) + 1
    IN  IF e.pos >= Len(line) THEN expandMacrosWrite(e, line)
        ELSE IF isalpha(c) \/ c = "_" THEN expandMacrosIdentifier(e)
        ELSE IF c \in {"\"", "'"}
        THEN IF end >= Len(line) THEN expandMacrosError([e1 EXCEPT !.pos = end],
                                                        "noQuoteCharPair")
             ELSE [e1 EXCEPT !.pos = end]
        ELSE [e1 EXCEPT !.pos = e.pos + 1]

(***************************************************************************)
(* The state machine                                                       *)
(***************************************************************************)
VARIABLES
    pc,                  \* the function that runs, or "done"
    filedata,            \* the text that is read, or that was written
    getcfgsState,        \* the locals of getcfgs (ret, deflist, ndeflist, defines, ...)
    configs,             \* the list that getcfgs returned (resultConfigurations)
    chain,               \* the conditional chain the source text was written from
    gnuc,                \* the build defines __GNUC__
    files,               \* the file system: path |-> text
    handleIncludesState, \* the locals of handleIncludes (code, paths, pos, ...)
    config,              \* the argument cfg of getcode
    condition,           \* the argument def of match_cfg_def
    getcodeState,        \* the locals of getcode (ret, match, matching_ifdef, ...)
    result,              \* the text getcode returned and the error reported
    matches,             \* the value match_cfg_def returned
    expandMacrosState    \* the locals of expandMacros and the macros on the heap

vars ==
    <<pc, filedata, getcfgsState, configs, chain, gnuc, files, handleIncludesState,
      config, condition, getcodeState, result, matches,
                   expandMacrosState>>

\* the values of the variables a function does not use
NoChain == [kind |-> "none", X |-> "", Y |-> "", body |-> <<>>, style |-> "plain"]
NoResult == [text |-> "", error |-> ""]

cfgsUnused ==
    /\ chain = NoChain
    /\ gnuc = FALSE
    /\ files = emptyMap
    /\ handleIncludesState = handleIncludesInit("", "")
    /\ config = ""
    /\ condition = ""
    /\ getcodeState = getcodeInit("")
    /\ result = NoResult
    /\ matches = FALSE
    /\ expandMacrosState = expandMacrosInit("")

(***************************************************************************)
(* getcfgs, one line of the text at a time                                 *)
(***************************************************************************)
\* the longest text that getcfgs reads, in lines
MaxCfgsLines == 5

\* the lines a text is made of
CfgsLines ==
    {"#ifdef A", "#ifdef B", "#ifndef A", "#elif B", "#if defined(B)&&defined(A)",
     "#if (A", "#if A)||(B", "#elif (B", "#else", "#endif", "#define A", "#define B 1",
     "#file \"a.h\"", "#endfile", "x;"}

InitCfgs ==
    /\ pc = "getcfgs"
    /\ filedata = ""
    /\ getcfgsState = getcfgsInit
    /\ configs = <<>>
    /\ cfgsUnused

\* while (getline(istr, line)) { ... }: one line
CfgsLine ==
    /\ pc = "getcfgs"
    /\ ~getcfgsState.returned
    /\ ~getcfgsState.ub
    /\ getcfgsState.linenr < MaxCfgsLines
    /\ \E line \in CfgsLines :
          getcfgsState' = getcfgsLine(getcfgsState, line)
    /\ UNCHANGED <<pc, filedata, configs, chain, gnuc, files, handleIncludesState,
                   config, condition, getcodeState, result, matches,
                   expandMacrosState>>

\* the end of the text, or the return after a parenthesis mismatch
CfgsReturn ==
    /\ pc = "getcfgs"
    /\ ~getcfgsState.ub
    /\ configs' = IF getcfgsState.returned THEN getcfgsState.ret
                  ELSE getcfgsFinish(getcfgsState)
    /\ pc' = "done"
    /\ UNCHANGED <<filedata, getcfgsState, chain, gnuc, files, handleIncludesState,
                   config, condition, getcodeState, result, matches,
                   expandMacrosState>>

NextCfgs == CfgsLine \/ CfgsReturn

SpecCfgs == InitCfgs /\ [][NextCfgs]_vars

\* the most lines of a text whose conditions are not all of the handled form
MaxFilterLines == 4

FilterLines ==
    {"#ifdef A", "#ifdef A=", "#ifdef B=1", "#if A==1", "#if defined(A)||defined(B)",
     "#if 1A", "#if (A)", "#if A=x", "#else", "#endif"}

\* while (getline(istr, line)) { ... }: one line
FilterLine ==
    /\ pc = "getcfgs"
    /\ ~getcfgsState.returned
    /\ ~getcfgsState.ub
    /\ getcfgsState.linenr < MaxFilterLines
    /\ \E line \in FilterLines :
          /\ getcfgsState' = getcfgsLine(getcfgsState, line)
          /\ filedata' = filedata \o line \o "\n"
    /\ UNCHANGED <<pc, configs, chain, gnuc, files, handleIncludesState,
                   config, condition, getcodeState, result, matches,
                   expandMacrosState>>

NextFilter == FilterLine \/ CfgsReturn

SpecFilter == InitCfgs /\ [][NextFilter]_vars

\* the most lines of a text of nested #ifndef blocks
MaxNdefLines == 6

NdefLines == {"#ifndef A", "#ifndef B", "#ifdef W", "#elif C", "#else", "#endif"}

\* while (getline(istr, line)) { ... }: one line
NdefLine ==
    /\ pc = "getcfgs"
    /\ ~getcfgsState.returned
    /\ ~getcfgsState.ub
    /\ getcfgsState.linenr < MaxNdefLines
    /\ \E line \in NdefLines :
          /\ getcfgsState' = getcfgsLine(getcfgsState, line)
          /\ filedata' = filedata \o line \o "\n"
    /\ UNCHANGED <<pc, configs, chain, gnuc, files, handleIncludesState,
                   config, condition, getcodeState, result, matches,
                   expandMacrosState>>

NextNdef == NdefLine \/ CfgsReturn

SpecNdef == InitCfgs /\ [][NextNdef]_vars

\* texts with the block of an included file: the lines before the block, the
\* block with and without an include guard, and the lines after it
GuardPrefixes == {"", "#ifdef A\n", "#ifdef A\n#ifdef C\n", "#ifndef A\n", "#ifdef A\n#else\n"}
GuardBodies == {"", "x;\n", "#ifdef C\n#endif\n", "#ifndef C\n#else\n#endif\n"}
GuardBlocks ==
    {"#file \"a.h\"\n" \o body \o "#endfile\n" : body \in GuardBodies}
        \cup {"#file \"a.h\"\n#ifndef G\n#define G\n" \o body \o "#endif\n#endfile\n" :
                 body \in GuardBodies}
GuardSuffixes == {"", "x;\n", "#ifdef B\n#endif\n", "#ifndef B\n#else\n#endif\n"}
GuardTexts ==
    {prefix \o block \o suffix :
        prefix \in GuardPrefixes, block \in GuardBlocks, suffix \in GuardSuffixes}

InitGuard ==
    /\ pc = "getcfgs"
    /\ filedata \in GuardTexts
    /\ getcfgsState = getcfgsInit
    /\ configs = <<>>
    /\ cfgsUnused

\* while (getline(istr, line)) { ... }: the next line of the text
GuardLine ==
    /\ pc = "getcfgs"
    /\ ~getcfgsState.returned
    /\ ~getcfgsState.ub
    /\ getcfgsState.linenr < Len(getlineAll(filedata))
    /\ getcfgsState' = getcfgsLine(getcfgsState, getlineAll(filedata)[getcfgsState.linenr + 1])
    /\ UNCHANGED <<pc, filedata, configs, chain, gnuc, files, handleIncludesState,
                   config, condition, getcodeState, result, matches,
                   expandMacrosState>>

\* the end of the text
GuardReturn ==
    /\ pc = "getcfgs"
    /\ ~getcfgsState.ub
    /\ getcfgsState.returned \/ getcfgsState.linenr = Len(getlineAll(filedata))
    /\ configs' = IF getcfgsState.returned THEN getcfgsState.ret
                  ELSE getcfgsFinish(getcfgsState)
    /\ pc' = "done"
    /\ UNCHANGED <<filedata, getcfgsState, chain, gnuc, files, handleIncludesState,
                   config, condition, getcodeState, result, matches,
                   expandMacrosState>>

NextGuard == GuardLine \/ GuardReturn

SpecGuard == InitGuard /\ [][NextGuard]_vars

(***************************************************************************)
(* preprocess on a source file that consists of one conditional chain      *)
(***************************************************************************)
\* the most iterations of the loop of handleIncludes
MaxIncludeSteps == 16

\* Preprocessor::handleIncludes(code, filePath, includePaths): code after the call
handleIncludes(code, filePath, includePaths, fs, gcc) ==
    handleIncludesLoop(handleIncludesInit(code, filePath), includePaths, fs, gcc,
                       MaxIncludeSteps).code

\* the identifiers of the conditions, the texts between the directives, and the
\* ways the directives are written
ChainNames == {"A", "B", "AB"}
ChainBodies == {"", "#define A", "#define B 1\nB;"}
ChainStyles == {"plain", "spaced", "comment", "paren", "crlf", "spliced"}

\* a directive as the style writes it
chainDirective(style, directive, arg) ==
    IF style = "spaced" THEN "  #  " \o SubstrFrom(directive, 1) \o " \t" \o arg \o " "
    ELSE IF style = "comment" THEN directive \o " /*c*/" \o arg \o " //c"
    ELSE IF style = "spliced" THEN directive \o "\\\n " \o arg
    ELSE IF arg = "" THEN directive
    ELSE directive \o " " \o arg

chainElifArg(style, Y) ==
    IF style = "paren" THEN "defined(" \o Y \o ")"
    ELSE IF style = "spaced" THEN "defined  " \o Y
    ELSE "defined " \o Y

\* the source text of a chain
chainText(c) ==
    LET nl == IF c.style = "crlf" THEN "\r\n" ELSE "\n"
        body(i) == IF c.body[i] = "" THEN "" ELSE c.body[i] \o nl
    IN  IF c.kind = "ifdef"
        THEN chainDirective(c.style, "#ifdef", c.X) \o nl \o body(1)
             \o chainDirective(c.style, "#elif", chainElifArg(c.style, c.Y)) \o nl \o body(2)
             \o chainDirective(c.style, "#else", "") \o nl \o body(3)
             \o chainDirective(c.style, "#endif", "") \o nl
        ELSE chainDirective(c.style, "#ifndef", c.X) \o nl \o body(1)
             \o chainDirective(c.style, "#else", "") \o nl \o body(3)
             \o chainDirective(c.style, "#endif", "") \o nl

\* the names the chain's text #defines
chainDefined(c) ==
    {macroName(SubstrFrom(c.body[i], 8)) :
        i \in {k \in 1 .. Len(c.body) : StartsWith(c.body[k], "#define ")}}

Chains ==
    {[kind |-> "ifdef", X |-> x, Y |-> y, body |-> <<b1, b2, b3>>, style |-> st] :
        x \in ChainNames, y \in ChainNames, b1 \in ChainBodies, b2 \in ChainBodies,
        b3 \in ChainBodies, st \in ChainStyles}
    \cup
    {[kind |-> "ifndef", X |-> x, Y |-> "", body |-> <<b1, "", b3>>, style |-> st] :
        x \in ChainNames, b1 \in ChainBodies, b3 \in ChainBodies, st \in ChainStyles}

InitChain ==
    /\ pc = "read"
    /\ chain \in Chains
    /\ gnuc \in BOOLEAN
    /\ filedata = chainText(chain)
    /\ getcfgsState = getcfgsInit
    /\ configs = <<>>
    /\ files = emptyMap
    /\ handleIncludesState = handleIncludesInit("", "")
    /\ config = ""
    /\ condition = ""
    /\ getcodeState = getcodeInit("")
    /\ result = NoResult
    /\ matches = FALSE
    /\ expandMacrosState = expandMacrosInit("")

\* processedFile = read(srcCodeStream, filename, _settings);
PreprocessRead ==
    /\ pc = "read"
    /\ filedata' = read(filedata, gnuc)
    /\ pc' = "preprocessWhitespaces"
    /\ UNCHANGED <<getcfgsState, configs, chain, gnuc, files, handleIncludesState, config,
                   condition, getcodeState, result, matches,
                   expandMacrosState>>

\* preprocessWhitespaces(processedFile);
PreprocessWhitespaces ==
    /\ pc = "preprocessWhitespaces"
    /\ filedata' = preprocessWhitespaces(filedata)
    /\ pc' = "removeAsm"
    /\ UNCHANGED <<getcfgsState, configs, chain, gnuc, files, handleIncludesState, config,
                   condition, getcodeState, result, matches,
                   expandMacrosState>>

\* removeAsm(processedFile);
PreprocessRemoveAsm ==
    /\ pc = "removeAsm"
    /\ filedata' = removeAsm(filedata)
    /\ pc' = "defined"
    /\ UNCHANGED <<getcfgsState, configs, chain, gnuc, files, handleIncludesState, config,
                   condition, getcodeState, result, matches,
                   expandMacrosState>>

\* the block "Replace "defined A" with "defined(A)""
PreprocessDefined ==
    /\ pc = "defined"
    /\ filedata' = definedParentheses(filedata)
    /\ pc' = "handleIncludes"
    /\ UNCHANGED <<getcfgsState, configs, chain, gnuc, files, handleIncludesState, config,
                   condition, getcodeState, result, matches,
                   expandMacrosState>>

\* handleIncludes(processedFile, filename, includePaths);
PreprocessIncludes ==
    /\ pc = "handleIncludes"
    /\ filedata' = handleIncludes(filedata, "main.c", <<>>, files, gnuc)
    /\ pc' = "replaceIfDefined"
    /\ UNCHANGED <<getcfgsState, configs, chain, gnuc, files, handleIncludesState, config,
                   condition, getcodeState, result, matches,
                   expandMacrosState>>

\* processedFile = replaceIfDefined(processedFile);
PreprocessReplaceIfDefined ==
    /\ pc = "replaceIfDefined"
    /\ filedata' = replaceIfDefined(filedata)
    /\ pc' = "getcfgs"
    /\ UNCHANGED <<getcfgsState, configs, chain, gnuc, files, handleIncludesState, config,
                   condition, getcodeState, result, matches,
                   expandMacrosState>>

\* resultConfigurations = getcfgs(processedFile, filename);
PreprocessGetcfgs ==
    /\ pc = "getcfgs"
    /\ configs' = getcfgs(filedata)
    /\ pc' = "done"
    /\ UNCHANGED <<filedata, getcfgsState, chain, gnuc, files, handleIncludesState, config,
                   condition, getcodeState, result, matches,
                   expandMacrosState>>

NextChain ==
    \/ PreprocessRead
    \/ PreprocessWhitespaces
    \/ PreprocessRemoveAsm
    \/ PreprocessDefined
    \/ PreprocessIncludes
    \/ PreprocessReplaceIfDefined
    \/ PreprocessGetcfgs

SpecChain == InitChain /\ [][NextChain]_vars

(***************************************************************************)
(* getcode, one line of the text at a time, with getcfgs reading the same  *)
(* lines                                                                   *)
(***************************************************************************)
\* the longest texts that getcode reads, in lines
MaxDirectiveLines == 5
MaxCodeLines == 4

\* the lines of a text of directives, and of a text with code
DirectiveLines == {"#ifdef A", "#ifndef B", "#elif B", "#else", "#endif", "#define B"}
CodeLines ==
    {"#ifdef A", "#else", "#endif", "#define B 1", "#error", "x = \"a;", "B;", "#pragma asm"}

\* the configurations getcode is called with
Configurations == {"", "A", "B", "A;B"}

InitCode ==
    /\ pc = "getcode"
    /\ config \in Configurations
    /\ getcodeState = getcodeInit(config)
    /\ filedata = ""
    /\ getcfgsState = getcfgsInit
    /\ configs = <<>>
    /\ chain = NoChain
    /\ gnuc = FALSE
    /\ files = emptyMap
    /\ handleIncludesState = handleIncludesInit("", "")
    /\ condition = ""
    /\ result = NoResult
    /\ matches = FALSE
    /\ expandMacrosState = expandMacrosInit("")

\* getcfgs reads the line that getcode reads
getcfgsRead(g, line) == IF g.returned \/ g.ub THEN g ELSE getcfgsLine(g, line)

\* the list getcfgs returns for the lines read
getcfgsReturn(g) ==
    IF g.returned THEN g.ret
    ELSE IF g.ub THEN <<>>
    ELSE getcfgsFinish(g)

\* while (getline(istr, line)) { ... }: one line of a text of directives
MatchingLine ==
    /\ pc = "getcode"
    /\ ~getcodeState.returned
    /\ ~getcodeState.ub
    /\ getcodeState.nlines < MaxDirectiveLines
    /\ \E line \in DirectiveLines :
          /\ getcodeState' = getcodeLine(getcodeState, line)
          /\ getcfgsState' = getcfgsRead(getcfgsState, line)
          /\ filedata' = filedata \o line \o "\n"
    /\ UNCHANGED <<pc, configs, chain, gnuc, files, handleIncludesState, config, condition,
                   result, matches,
                   expandMacrosState>>

\* the end of the text, and expandMacros
MatchingReturn ==
    /\ pc = "getcode"
    /\ ~getcodeState.ub
    /\ result' = getcodeReturn(getcodeState)
    /\ configs' = getcfgsReturn(getcfgsState)
    /\ pc' = "done"
    /\ UNCHANGED <<filedata, getcfgsState, chain, gnuc, files, handleIncludesState, config,
                   condition, getcodeState, matches,
                   expandMacrosState>>

NextMatching == MatchingLine \/ MatchingReturn

SpecMatching == InitCode /\ [][NextMatching]_vars

\* while (getline(istr, line)) { ... }: one line of a text with code
CodeLine ==
    /\ pc = "getcode"
    /\ ~getcodeState.returned
    /\ ~getcodeState.ub
    /\ getcodeState.nlines < MaxCodeLines
    /\ \E line \in CodeLines :
          /\ getcodeState' = getcodeLine(getcodeState, line)
          /\ getcfgsState' = getcfgsRead(getcfgsState, line)
          /\ filedata' = filedata \o line \o "\n"
    /\ UNCHANGED <<pc, configs, chain, gnuc, files, handleIncludesState, config, condition,
                   result, matches,
                   expandMacrosState>>

\* the end of the text or the return at an active #error, and expandMacros
CodeReturn ==
    /\ pc = "getcode"
    /\ ~getcodeState.ub
    /\ result' = getcodeReturn(getcodeState)
    /\ configs' = getcfgsReturn(getcfgsState)
    /\ pc' = "done"
    /\ UNCHANGED <<filedata, getcfgsState, chain, gnuc, files, handleIncludesState, config,
                   condition, getcodeState, matches,
                   expandMacrosState>>

NextCode == CodeLine \/ CodeReturn

SpecCode == InitCode /\ [][NextCode]_vars

(***************************************************************************)
(* getcode on texts with #error lines, with and without user defines       *)
(***************************************************************************)
\* the most lines of a text with #error lines
MaxErrorLines == 5

ErrorLines == {"#ifdef A", "#ifndef A", "#else", "#endif", "#error", "x;"}
ErrorConfigurations == {"", "A"}

InitError ==
    /\ pc = "getcode"
    /\ config \in ErrorConfigurations
    /\ \E u \in BOOLEAN : getcodeState = [getcodeInit(config) EXCEPT !.userDefines = u]
    /\ filedata = ""
    /\ getcfgsState = getcfgsInit
    /\ configs = <<>>
    /\ chain = NoChain
    /\ gnuc = FALSE
    /\ files = emptyMap
    /\ handleIncludesState = handleIncludesInit("", "")
    /\ condition = ""
    /\ result = NoResult
    /\ matches = FALSE
    /\ expandMacrosState = expandMacrosInit("")

\* one more line of the text, read by getcode
ErrorLine ==
    /\ pc = "getcode"
    /\ ~getcodeState.returned
    /\ ~getcodeState.ub
    /\ getcodeState.nlines < MaxErrorLines
    /\ \E line \in ErrorLines :
          /\ getcodeState' = getcodeLine(getcodeState, line)
          /\ filedata' = filedata \o line \o "\n"
    /\ UNCHANGED <<pc, getcfgsState, configs, chain, gnuc, files, handleIncludesState,
                   config, condition, result, matches,
                   expandMacrosState>>

\* the end of the text or the return at an active #error, and expandMacros
ErrorReturn ==
    /\ pc = "getcode"
    /\ ~getcodeState.ub
    /\ result' = getcodeReturn(getcodeState)
    /\ pc' = "done"
    /\ UNCHANGED <<filedata, getcfgsState, configs, chain, gnuc, files,
                   handleIncludesState, config, condition, getcodeState, matches,
                   expandMacrosState>>

NextError == ErrorLine \/ ErrorReturn

SpecError == InitError /\ [][NextError]_vars

(***************************************************************************)
(* the selector of getcode on texts with #file, #endfile, #define, #undef  *)
(***************************************************************************)
\* the most lines of a text for the selector
MaxSelectLines == 4

SelectLines ==
    {"#ifdef A", "#else", "#endif", "#define B", "#undef B", "#file \"a.h\"", "#endfile",
     "#error", "x;", "#pragma asm"}

InitSelect ==
    /\ pc = "getcode"
    /\ config \in ErrorConfigurations
    /\ getcodeState = getcodeInit(config)
    /\ filedata = ""
    /\ getcfgsState = getcfgsInit
    /\ configs = <<>>
    /\ chain = NoChain
    /\ gnuc = FALSE
    /\ files = emptyMap
    /\ handleIncludesState = handleIncludesInit("", "")
    /\ condition = ""
    /\ result = NoResult
    /\ matches = FALSE
    /\ expandMacrosState = expandMacrosInit("")

\* one more line of the text, read by getcode
SelectLine ==
    /\ pc = "getcode"
    /\ ~getcodeState.returned
    /\ ~getcodeState.ub
    /\ getcodeState.nlines < MaxSelectLines
    /\ \E line \in SelectLines :
          /\ getcodeState' = getcodeLine(getcodeState, line)
          /\ filedata' = filedata \o line \o "\n"
    /\ UNCHANGED <<pc, getcfgsState, configs, chain, gnuc, files, handleIncludesState,
                   config, condition, result, matches,
                   expandMacrosState>>

NextSelect == SelectLine \/ ErrorReturn

SpecSelect == InitSelect /\ [][NextSelect]_vars

\* the most lines of a text with #undef lines
MaxUndefLines == 5

UndefLines == {"#define B 1", "#undef B", "#ifdef A", "#endif", "B;"}

\* one more line of a text that defines, undefines and uses a macro
UndefLine ==
    /\ pc = "getcode"
    /\ ~getcodeState.returned
    /\ ~getcodeState.ub
    /\ getcodeState.nlines < MaxUndefLines
    /\ \E line \in UndefLines :
          /\ getcodeState' = getcodeLine(getcodeState, line)
          /\ filedata' = filedata \o line \o "\n"
    /\ UNCHANGED <<pc, getcfgsState, configs, chain, gnuc, files, handleIncludesState,
                   config, condition, result, matches,
                   expandMacrosState>>

NextUndef == UndefLine \/ ErrorReturn

SpecUndef == InitSelect /\ [][NextUndef]_vars

\* the most lines of a text with "#pragma asm" blocks
MaxAsmLines == 4

AsmLines ==
    {"#pragma asm", "#pragma endasm", "#pragma endasm (x = 1)", "#pragma endasm (x = 1",
     "mov;", "#ifdef A", "#define B", "#error"}

\* one more line of a text with "#pragma asm" blocks
AsmLine ==
    /\ pc = "getcode"
    /\ ~getcodeState.returned
    /\ ~getcodeState.ub
    /\ getcodeState.nlines < MaxAsmLines
    /\ \E line \in AsmLines :
          /\ getcodeState' = getcodeLine(getcodeState, line)
          /\ filedata' = filedata \o line \o "\n"
    /\ UNCHANGED <<pc, getcfgsState, configs, chain, gnuc, files, handleIncludesState,
                   config, condition, result, matches,
                   expandMacrosState>>

NextAsm == AsmLine \/ ErrorReturn

SpecAsm == InitSelect /\ [][NextAsm]_vars

(***************************************************************************)
(* read, applied to a file and then to its own result                      *)
(***************************************************************************)
\* the most pieces of a file that is read
MaxReadPieces == 4

ReadPieces == {"\n", "\r", "\\", "/*", "*/", "//", "\"", " ", "#if(", "((a))", ")"}

\* the texts of at most n pieces
RECURSIVE ReadTexts(_)
ReadTexts(n) ==
    IF n = 0 THEN {""}
    ELSE ReadTexts(n - 1) \cup {t \o p : t \in ReadTexts(n - 1), p \in ReadPieces}

InitRead ==
    /\ pc = "read"
    /\ \E text \in ReadTexts(MaxReadPieces) : files = mapPut(emptyMap, "a.c", text)
    /\ gnuc \in BOOLEAN
    /\ filedata = ""
    /\ getcfgsState = getcfgsInit
    /\ configs = <<>>
    /\ chain = NoChain
    /\ handleIncludesState = handleIncludesInit("", "")
    /\ config = ""
    /\ condition = ""
    /\ getcodeState = getcodeInit("")
    /\ result = NoResult
    /\ matches = FALSE
    /\ expandMacrosState = expandMacrosInit("")

\* read(fin, filename, settings) on the stream of the file
ReadFile ==
    /\ pc = "read"
    /\ filedata' = read(files["a.c"], gnuc)
    /\ pc' = "reread"
    /\ UNCHANGED <<getcfgsState, configs, chain, gnuc, files, handleIncludesState, config,
                   condition, getcodeState, result, matches,
                   expandMacrosState>>

\* read on a stream that holds the text read returned
ReadAgain ==
    /\ pc = "reread"
    /\ filedata' = read(filedata, gnuc)
    /\ pc' = "done"
    /\ UNCHANGED <<getcfgsState, configs, chain, gnuc, files, handleIncludesState, config,
                   condition, getcodeState, result, matches,
                   expandMacrosState>>

NextRead == ReadFile \/ ReadAgain

SpecRead == InitRead /\ [][NextRead]_vars

(***************************************************************************)
(* removeComments on texts with #error and #warning lines                  *)
(***************************************************************************)
\* the most pieces of a text with #error and #warning lines
MaxCommentPieces == 5

CommentPieces == {"#error", "#warning", " msg", "\n", "//", "/*", "*/", "\"", "x;"}

\* the texts of at most n pieces
RECURSIVE CommentTexts(_)
CommentTexts(n) ==
    IF n = 0 THEN {""}
    ELSE CommentTexts(n - 1) \cup {t \o p : t \in CommentTexts(n - 1), p \in CommentPieces}

InitComments ==
    /\ pc = "removeComments"
    /\ \E text \in CommentTexts(MaxCommentPieces) : files = mapPut(emptyMap, "a.c", text)
    /\ gnuc = FALSE
    /\ filedata = ""
    /\ getcfgsState = getcfgsInit
    /\ configs = <<>>
    /\ chain = NoChain
    /\ handleIncludesState = handleIncludesInit("", "")
    /\ config = ""
    /\ condition = ""
    /\ getcodeState = getcodeInit("")
    /\ result = NoResult
    /\ matches = FALSE
    /\ expandMacrosState = expandMacrosInit("")

\* removeComments(str, filename, settings)
RemoveComments ==
    /\ pc = "removeComments"
    /\ filedata' = removeComments(files["a.c"])
    /\ pc' = "done"
    /\ UNCHANGED <<getcfgsState, configs, chain, gnuc, files, handleIncludesState, config,
                   condition, getcodeState, result, matches,
                   expandMacrosState>>

NextComments == RemoveComments

SpecComments == InitComments /\ [][NextComments]_vars

(***************************************************************************)
(* match_cfg_def on the map getcode makes of a configuration               *)
(***************************************************************************)
\* the most tokens of a configuration
MaxCfgTokens == 2

CfgTokens == {"A", "B", "AB", "A=1", "B=0", "C=10"}
Identifiers == {"A", "B", "C", "AB", "BA"}

\* the configurations of at most n tokens
RECURSIVE CfgsOf(_)
CfgsOf(n) ==
    IF n = 0 THEN {""}
    ELSE CfgsOf(n - 1) \cup
         {IF c = "" THEN t ELSE c \o ";" \o t : c \in CfgsOf(n - 1), t \in CfgTokens}

InitMatch ==
    /\ pc = "cfgmap"
    /\ config \in CfgsOf(MaxCfgTokens)
    /\ condition \in Identifiers
    /\ getcodeState = getcodeInit("")
    /\ matches = FALSE
    /\ expandMacrosState = expandMacrosInit("")
    /\ filedata = ""
    /\ getcfgsState = getcfgsInit
    /\ configs = <<>>
    /\ chain = NoChain
    /\ gnuc = FALSE
    /\ files = emptyMap
    /\ handleIncludesState = handleIncludesInit("", "")
    /\ result = NoResult

\* "Create a map for the cfg" in getcode
MatchCfgmap ==
    /\ pc = "cfgmap"
    /\ getcodeState' = getcodeInit(config)
    /\ pc' = "match_cfg_def"
    /\ UNCHANGED <<filedata, getcfgsState, configs, chain, gnuc, files, handleIncludesState,
                   config, condition, result, matches,
                   expandMacrosState>>

\* match_cfg_def(cfgmap, def)
MatchDef ==
    /\ pc = "match_cfg_def"
    /\ matches' = match_cfg_def(getcodeState.cfgmap, condition)
    /\ pc' = "done"
    /\ UNCHANGED <<filedata, getcfgsState, configs, chain, gnuc, files, handleIncludesState,
                   config, condition, getcodeState, result, expandMacrosState>>

NextMatch == MatchCfgmap \/ MatchDef

SpecMatch == InitMatch /\ [][NextMatch]_vars

\* conditions of two names joined by || or &&, in both orders
Operands == {"A", "B", "C"}
Conditions == {x \o op \o y : x \in Operands, y \in Operands, op \in {"||", "&&"}}

\* match_cfg_def on a condition of two operands
InitCond ==
    /\ pc = "cfgmap"
    /\ config \in CfgsOf(MaxCfgTokens)
    /\ condition \in Conditions
    /\ getcodeState = getcodeInit("")
    /\ matches = FALSE
    /\ expandMacrosState = expandMacrosInit("")
    /\ filedata = ""
    /\ getcfgsState = getcfgsInit
    /\ configs = <<>>
    /\ chain = NoChain
    /\ gnuc = FALSE
    /\ files = emptyMap
    /\ handleIncludesState = handleIncludesInit("", "")
    /\ result = NoResult

SpecCond == InitCond /\ [][NextMatch]_vars

(***************************************************************************)
(* handleIncludes, one iteration of its loop at a time                     *)
(***************************************************************************)
\* the most lines of the text that includes
MaxIncludeLines == 2

\* the lines of the text that includes
IncludeLines ==
    {"#include \"a.h\"", "#include \"A.h\"", "#include \"b.h\"", "#include \"d/c.h\"",
     "#include <s.h>", "#include \"n.h\"", "x; #include \"b.h\""}

\* the directories of the include paths
IncludePaths == <<"inc/">>

\* the texts of the headers a.h and b.h
TextsOfA == {"", "x;\n", "#include \"b.h\"\nx;\n"}
TextsOfB == {"y;", "#include \"a.h\"\n\ty; // c\n"}

\* a file system: d/c.h includes d/e.h, which includes a.h by the path ../a.h
FileSystem(a, b) ==
    [name \in {"a.h", "b.h", "A.h", "d/c.h", "d/e.h", "inc/s.h"} |->
        IF name = "a.h" THEN a
        ELSE IF name = "b.h" THEN b
        ELSE IF name = "A.h" THEN "X;\n"
        ELSE IF name = "d/c.h" THEN "#include \"e.h\"\nz;\n"
        ELSE IF name = "d/e.h" THEN "#include \"../a.h\"\n"
        ELSE "s;\n"]

\* the texts of at most n lines
RECURSIVE IncludeTexts(_)
IncludeTexts(n) ==
    IF n = 0 THEN {""}
    ELSE IncludeTexts(n - 1) \cup
         {t \o line \o "\n" : t \in IncludeTexts(n - 1), line \in IncludeLines}

InitInc ==
    /\ pc = "handleIncludes"
    /\ \E a \in TextsOfA, b \in TextsOfB : files = FileSystem(a, b)
    /\ gnuc \in BOOLEAN
    /\ filedata \in IncludeTexts(MaxIncludeLines)
    /\ handleIncludesState = handleIncludesInit(filedata, "main.c")
    /\ getcfgsState = getcfgsInit
    /\ configs = <<>>
    /\ chain = NoChain
    /\ config = ""
    /\ condition = ""
    /\ getcodeState = getcodeInit("")
    /\ result = NoResult
    /\ matches = FALSE
    /\ expandMacrosState = expandMacrosInit("")

\* the loop of handleIncludes has an iteration to run
IncStepEnabled ==
    /\ pc = "handleIncludes"
    /\ ~handleIncludesState.returned
    /\ ~handleIncludesState.ub
    /\ handleIncludesState.steps < MaxIncludeSteps

\* one evaluation of "(pos = code.find("#include", pos)) != npos", and the body
IncStep ==
    /\ IncStepEnabled
    /\ handleIncludesState' = handleIncludesStep(handleIncludesState, IncludePaths, files, gnuc)
    /\ UNCHANGED <<pc, filedata, getcfgsState, configs, chain, gnuc, files, config, condition,
                   getcodeState, result, matches,
                   expandMacrosState>>

\* the return of handleIncludes: code is the caller's text
IncReturn ==
    /\ pc = "handleIncludes"
    /\ handleIncludesState.returned
    /\ filedata' = handleIncludesState.code
    /\ pc' = "done"
    /\ UNCHANGED <<getcfgsState, configs, chain, gnuc, files, handleIncludesState, config,
                   condition, getcodeState, result, matches,
                   expandMacrosState>>

NextInc == IncStep \/ IncReturn

SpecInc == InitInc /\ [][NextInc]_vars

\* the thread that called handleIncludes runs on: weak fairness of both actions.
\* WF_vars(IncStep) is written out, with IncStepEnabled for ENABLED <<IncStep>>_vars
\* (an iteration always changes handleIncludesState)
SpecIncFair ==
    /\ SpecInc
    /\ ([]<>(~IncStepEnabled) \/ []<><<IncStep>>_vars)
    /\ WF_vars(IncReturn)

(***************************************************************************)
(* expandMacros on a text of at most MaxMacroDefines directive lines and   *)
(* one line of code that uses the macros                                   *)
(***************************************************************************)
MaxMacroDefines == 2

\* more iterations of the loop over one line than any line of MacroTexts takes
MaxMacroSteps == 40

MacroDefines ==
    {"#define A A", "#define A B", "#define B A", "#define A(x) A(x)",
     "#define STR(x) #x", "#define CAT(a,b) a##b",
     "#define LOG(fmt, ...) printf(fmt, ##__VA_ARGS__)", "#define V(a,b,c...) a",
     "#undef A", "#define 1"}

MacroUses ==
    {"A;", "A(1);", "STR(hello world);", "STR(\"a\\b\");", "CAT(foo,bar);", "CAT(foo);",
     "LOG(\"x\");", "LOG(\"x\", 1);", "V();", "V(1);",
     "CAT(foo) V();", "x = \"a;"}

RECURSIVE MacroHeads(_)
MacroHeads(n) ==
    IF n = 0 THEN {""}
    ELSE MacroHeads(n - 1) \cup {h \o d \o "\n" : h \in MacroHeads(n - 1), d \in MacroDefines}

MacroTexts == {h \o u \o "\n" : h \in MacroHeads(MaxMacroDefines), u \in MacroUses}

InitMacro ==
    /\ pc = "expandMacros"
    /\ filedata \in MacroTexts
    /\ getcfgsState = getcfgsInit
    /\ configs = <<>>
    /\ chain = <<>>
    /\ gnuc = FALSE
    /\ files = emptyMap
    /\ handleIncludesState = handleIncludesInit("", "")
    /\ config = ""
    /\ condition = ""
    /\ getcodeState = getcodeInit("")
    /\ result = NoResult
    /\ matches = FALSE
    /\ expandMacrosState = expandMacrosInit(filedata)

\* one evaluation of "while (getlines(istr, line))" and the body for a directive
MacroLineEnabled ==
    /\ pc = "expandMacros"
    /\ ~expandMacrosState.returned
    /\ ~expandMacrosState.inline

MacroLine ==
    /\ MacroLineEnabled
    /\ expandMacrosState' = expandMacrosGetlines(expandMacrosState)
    /\ UNCHANGED <<pc, filedata, getcfgsState, configs, chain, gnuc, files, handleIncludesState,
                   config, condition, getcodeState, result, matches>>

MacroScanEnabled ==
    /\ pc = "expandMacros"
    /\ ~expandMacrosState.returned
    /\ expandMacrosState.inline
    /\ expandMacrosState.steps < MaxMacroSteps

\* one iteration of the loop over the line
MacroScan ==
    /\ MacroScanEnabled
    /\ expandMacrosState' = expandMacrosScan(expandMacrosState)
    /\ UNCHANGED <<pc, filedata, getcfgsState, configs, chain, gnuc, files, handleIncludesState,
                   config, condition, getcodeState, result, matches>>

\* the return of expandMacros
MacroReturn ==
    /\ pc = "expandMacros"
    /\ expandMacrosState.returned
    /\ pc' = "done"
    /\ UNCHANGED <<filedata, getcfgsState, configs, chain, gnuc, files, handleIncludesState,
                   config, condition, getcodeState, result, matches, expandMacrosState>>

NextMacro == MacroLine \/ MacroScan \/ MacroReturn

SpecMacro == InitMacro /\ [][NextMacro]_vars

\* the thread that called expandMacros runs on: weak fairness of every action.
\* WF_vars(MacroLine) and WF_vars(MacroScan) are written out, with
\* MacroLineEnabled and MacroScanEnabled for ENABLED <<..>>_vars (a call of
\* getlines moves p or returns, an iteration counts a step)
SpecMacroFair ==
    /\ SpecMacro
    /\ ([]<>(~MacroLineEnabled) \/ []<><<MacroLine>>_vars)
    /\ ([]<>(~MacroScanEnabled) \/ []<><<MacroScan>>_vars)
    /\ WF_vars(MacroReturn)

(***************************************************************************)
(* Claims about getcfgs on arbitrary texts (SpecCfgs)                      *)
(***************************************************************************)
\* C1 as stated: for every input text the list returned by getcfgs contains the
\* empty configuration ""
C1_AlwaysHasEmptyCfg == pc = "done" => Contains(configs, "")

\* C1 (amended): the list returned by getcfgs contains the empty configuration ""
\* unless the scan stopped at a condition whose parentheses do not match; in
\* that case the list is empty
C1_EmptyCfgUnlessParMismatch ==
    pc = "done" =>
        IF getcfgsState.returned THEN configs = <<>> ELSE Contains(configs, "")

\* a text with conditions and balanced parentheses was enumerated
C1_Witness ==
    pc = "done" /\ ~getcfgsState.returned /\ Len(configs) >= 3 /\ getcfgsState.linenr >= 3

\* the ';'-separated tokens of a configuration, by position
C2_TokenStarts(c) == {0} \cup {p + 1 : p \in {q \in 0 .. (Len(c) - 1) : At(c, q) = ";"}}
C2_TokenAt(c, p) ==
    LET e == Find(c, ";", p) IN IF e = NPOS THEN SubstrFrom(c, p) ELSE Substr(c, p, e - p)

\* C2: the list returned by getcfgs is sorted lexicographically and holds no entry
\* twice, and in every entry the ';'-separated tokens are in sorted order, none
\* is empty, and no ';' leads, trails or is doubled
C2_SortedCanonical ==
    pc = "done" =>
        /\ \A i \in 1 .. (Len(configs) - 1) : StrLess(configs[i], configs[i + 1])
        /\ \A i \in 1 .. Len(configs) :
              LET c == configs[i]
              IN  /\ At(c, 0) # ";"
                  /\ At(c, Len(c) - 1) # ";"
                  /\ Find(c, ";;", 0) = NPOS
                  /\ c # "" => \A p \in C2_TokenStarts(c) : C2_TokenAt(c, p) # ""
                  /\ \A p1, p2 \in C2_TokenStarts(c) :
                        p1 < p2 => ~StrLess(C2_TokenAt(c, p2), C2_TokenAt(c, p1))

\* a list with an entry of two tokens that were met in the other order, and with
\* an entry that lost a #defined token
C2_Witness ==
    /\ pc = "done"
    /\ Contains(configs, "A;B")
    /\ Contains(getcfgsState.ret, "B;A")
    /\ getcfgsState.defines # {}
    /\ Len(configs) >= 3

(***************************************************************************)
(* Claims about preprocess on one conditional chain (SpecChain)            *)
(***************************************************************************)
\* the configurations of a list, as a set
C3_Set(l) == {l[i] : i \in 1 .. Len(l)}

\* C3: for a text that is one chain "#ifdef X ... #elif defined Y ... #else ...
\* #endif" with X and Y distinct and not #defined in the text, preprocess
\* returns exactly the configurations "", "X" and "Y"
C3_IfdefElifElse ==
    (/\ pc = "done"
     /\ chain.kind = "ifdef"
     /\ chain.X # chain.Y
     /\ {chain.X, chain.Y} \cap chainDefined(chain) = {})
    => /\ Len(configs) = 3
       /\ C3_Set(configs) = {"", chain.X, chain.Y}

\* such a chain, written with comments and with a #define of a third name in a
\* branch, was preprocessed
C3_Witness ==
    /\ pc = "done"
    /\ chain.kind = "ifdef"
    /\ chain.X # chain.Y
    /\ {chain.X, chain.Y} \cap chainDefined(chain) = {}
    /\ chainDefined(chain) # {}
    /\ chain.style = "comment"
    /\ Len(configs) = 3
    /\ Find(filedata, "#elif " \o chain.Y \o "\n", 0) # NPOS

\* C4: for a text that is "#ifndef X ... #else ... #endif" with X not #defined in
\* the text, the configurations are exactly "" and "X"
C4_IfndefElse ==
    (/\ pc = "done"
     /\ chain.kind = "ifndef"
     /\ chain.X \notin chainDefined(chain))
    => configs = <<"", chain.X>>

\* such a text, with a #define of another name in the #else branch, was
\* preprocessed
C4_Witness ==
    /\ pc = "done"
    /\ chain.kind = "ifndef"
    /\ chain.X \notin chainDefined(chain)
    /\ chain.body[3] # ""
    /\ chain.style = "plain"
    /\ Len(configs) = 2
    /\ Find(filedata, "#ifndef " \o chain.X \o "\n", 0) = 0

(***************************************************************************)
(* Claims about getcode (SpecMatching, SpecCode)                           *)
(***************************************************************************)
\* C5: for every configuration and every open chain that is well formed so far
\* (no branch after its #else), at most one branch had its matching flag true,
\* and exactly one if the #else was read
C5_AtMostOneBranch ==
    ~getcodeState.ub =>
        \A i \in 1 .. Len(getcodeState.chains) :
            LET c == getcodeState.chains[i]
            IN  ~c.afterElse => /\ c.trues <= 1
                                /\ c.elseSeen => c.trues = 1

\* a chain nested in the #else branch of a chain is open; in each a branch
\* matched, and a #elif was read
C5_Witness ==
    /\ Len(getcodeState.chains) = 2
    /\ getcodeState.chains[1].elseSeen
    /\ ~getcodeState.chains[1].afterElse
    /\ getcodeState.chains[1].trues = 1
    /\ getcodeState.chains[2].trues = 1
    /\ Find(filedata, "#elif B\n", 0) # NPOS

\* the lines of the text the selector wrote, and of the text getcode read
C6_Written == getlineAll(getcodeState.ret)
C6_Read == getlineAll(filedata)
C6_DefineLines ==
    {n \in 1 .. Len(C6_Read) : n <= Len(C6_Written) /\ StartsWith(C6_Read[n], "#define ")}

C8_Names(c) == {defineNameOf(C2_TokenAt(c, p)) : p \in C2_TokenStarts(c)}

\* C8: match_cfg_def(cfgmap, X) for an identifier X is true if and only if X is
\* the name of a token of the configuration, with or without a value, and
\* these names are the keys of the map
C8_MatchIffKey ==
    /\ pc # "cfgmap" => DOMAIN getcodeState.cfgmap = C8_Names(config)
    /\ pc = "done" => (matches <=> condition \in C8_Names(config))

\* a name with the value 0 matched, in a configuration of two tokens
C8_Witness ==
    /\ pc = "done"
    /\ matches
    /\ getcodeState.cfgmap[condition] = "0"
    /\ Cardinality(DOMAIN getcodeState.cfgmap) = 2

(***************************************************************************)
(* Claims about handleIncludes (SpecInc, SpecIncFair)                      *)
(***************************************************************************)
\* the positions after the occurrences of a marker in a text
C9_Ends(text, marker) ==
    {p + Len(marker) : p \in {q \in 0 .. (Len(text) - Len(marker)) :
                                 Substr(text, q, Len(marker)) = marker}}

C10_TerminatesInlinesOnce ==
    /\ <>(pc = "done")
    /\ [](\A i, j \in 1 .. Len(handleIncludesState.inlined) :
             i # j => handleIncludesState.inlined[i] # handleIncludesState.inlined[j])
    /\ [][handleIncludesState'.skipped # handleIncludesState.skipped =>
             /\ handleIncludesState'.inlined = handleIncludesState.inlined
             /\ \E n \in 1 .. Len(handleIncludesState.code) :
                   handleIncludesState'.code =
                       Erase(handleIncludesState.code, handleIncludesState'.pos, n)]_vars

\* two headers that include each other were each inlined once, and the include
\* that closes the cycle was removed
C10_Witness ==
    /\ pc = "done"
    /\ files["a.h"] = "#include \"b.h\"\nx;\n"
    /\ files["b.h"] = "#include \"a.h\"\n\ty; // c\n"
    /\ handleIncludesState.skipped >= 1
    /\ Len(handleIncludesState.inlined) = 2

\* the number of '(' and of ')' among the first n characters of a condition
C18_Opens(def, n) == Cardinality({p \in 0 .. (n - 1) : At(def, p) = "("})
C18_Closes(def, n) == Cardinality({p \in 0 .. (n - 1) : At(def, p) = ")"})

\* the parentheses of a condition do not match: the numbers differ, or a ')'
\* comes before its '('
C18_Mismatch(def) ==
    \/ C18_Opens(def, Len(def)) # C18_Closes(def, Len(def))
    \/ \E n \in 1 .. Len(def) : C18_Closes(def, n) > C18_Opens(def, n)

\* the condition of a #if, #ifdef, #ifndef or #elif line, "" for another line
C18_Condition(line) ==
    IF \E d \in {"#if ", "#ifdef ", "#ifndef ", "#elif "} : StartsWith(line, d)
    THEN SubstrFrom(line, Find(line, " ", 0) + 1)
    ELSE ""

\* an error whose id starts with "preprocessor" was reported and the list is empty
C18_Reported ==
    /\ getcfgsState.returned
    /\ getcfgsState.ret = <<>>
    /\ getcfgsState.errors # <<>>
    /\ StartsWith(Back(getcfgsState.errors), "preprocessor")

\* C18 (as stated): every #if, #ifdef, #ifndef or #elif line whose condition has
\* mismatching parentheses makes getcfgs report an error with an id that starts
\* with "preprocessor" and return the empty list
C18_MismatchReported ==
    /\ [][\A line \in CfgsLines :
             (/\ pc = "getcfgs"
              /\ getcfgsState'.linenr = getcfgsState.linenr + 1
              /\ getcfgsState' = getcfgsLine(getcfgsState, line)
              /\ C18_Mismatch(C18_Condition(line)))
             => C18_Reported']_vars
    /\ [](pc = "done" /\ getcfgsState.returned => configs = <<>>)

\* C18 (amended): the same for every such line that getcfgs examines, whatever
\* was collected before it; a #if, #ifdef or #ifndef line that is read while the
\* include guard of a #file block is skipped is not examined and reports nothing
C18_MismatchExamined ==
    /\ [][\A line \in CfgsLines :
             (/\ pc = "getcfgs"
              /\ getcfgsState'.linenr = getcfgsState.linenr + 1
              /\ getcfgsState' = getcfgsLine(getcfgsState, line)
              /\ C18_Mismatch(C18_Condition(line)))
             => IF getcfgsState.includeguard /\ StartsWith(line, "#if")
                THEN getcfgsState' = [getcfgsState EXCEPT !.linenr = @ + 1]
                ELSE C18_Reported']_vars
    /\ [](pc = "done" /\ getcfgsState.returned => configs = <<>>)

\* getcfgs returned at a mismatching condition on the third line or later, with
\* a conditional frame open, and the caller got the empty list
C18_Witness ==
    /\ pc = "done"
    /\ C18_Reported
    /\ getcfgsState.linenr >= 3
    /\ getcfgsState.deflist # <<>>
    /\ configs = <<>>

\* the lines of the text getcode was given
C19_Lines == getlineAll(filedata)

\* the conditional frames that are open after the first n lines of a text of
\* #ifdef A, #ifndef A, #else, #endif: for each, whether its condition holds
\* under the configuration, and whether its #else was passed
RECURSIVE C19_Frames(_, _)
C19_Frames(lines, n) ==
    IF n = 0 THEN <<>>
    ELSE LET fr == C19_Frames(lines, n - 1)
             line == lines[n]
         IN  IF line = "#ifdef A" THEN Append(fr, [holds |-> config = "A", else |-> FALSE])
             ELSE IF line = "#ifndef A"
             THEN Append(fr, [holds |-> config # "A", else |-> FALSE])
             ELSE IF line = "#else" /\ fr # <<>>
             THEN [fr EXCEPT ![Len(fr)].else = TRUE]
             ELSE IF line = "#endif" /\ fr # <<>> THEN SubSeq(fr, 1, Len(fr) - 1)
             ELSE fr

\* line n is a #error line and every frame that encloses it is in its matching
\* branch
C19_ActiveError(lines, n) ==
    /\ StartsWith(lines[n], "#error")
    /\ \A i \in 1 .. Len(C19_Frames(lines, n - 1)) :
          C19_Frames(lines, n - 1)[i].holds # C19_Frames(lines, n - 1)[i].else

\* C19: a #error line whose enclosing frames all match makes getcode return the
\* empty text, and preprocessorErrorDirective is reported for that line when
\* the caller supplied user defines; a #error line in a branch that does not
\* match causes no report and no empty result
C19_ErrorDirective ==
    (pc = "done" /\ C19_Lines # <<>>) =>
        IF C19_ActiveError(C19_Lines, Len(C19_Lines))
        THEN /\ result.text = ""
             /\ getcodeState.userDefines =>
                    getcodeState.errors =
                        << <<Len(C19_Lines), "preprocessorErrorDirective",
                             Back(C19_Lines)>> >>
        ELSE /\ result.text # ""
             /\ getcodeState.errors = <<>>

\* getcode returned the empty text at a #error line inside an #else branch of a
\* nested frame, after a #error line in a branch that does not match, and
\* reported it
C19_Witness ==
    /\ pc = "done"
    /\ result.text = ""
    /\ Len(C19_Lines) = 5
    /\ C19_Lines[2] = "#error"
    /\ C19_Lines[3] = "#else"
    /\ Len(getcodeState.matching_ifdef) = 1
    /\ getcodeState.errors # <<>>

\* the selector read the line and wrote the text out for it
C20_Writes(line, out) ==
    getcodeState'.ret = getcodeState.ret \o out \o "\n"

\* the selector reads the line in this step
C20_Reads(line) ==
    /\ pc = "getcode"
    /\ filedata' = filedata \o line \o "\n"
    /\ getcodeState' = getcodeLine(getcodeState, line)

\* C20 (as stated): lines that start with '#file "', '#endfile', '#define ' and
\* '#undef' are written unchanged whether or not the current branch matches,
\* and every other line that starts with '#' is written as an empty line
C20_MarkersPassOthersBlanked ==
    [][\A line \in SelectLines :
          (C20_Reads(line) /\ StartsWith(line, "#")) =>
              IF \/ StartsWith(line, "#file \"") \/ StartsWith(line, "#endfile")
                 \/ StartsWith(line, "#define ") \/ StartsWith(line, "#undef")
              THEN C20_Writes(line, line)
              ELSE C20_Writes(line, "")]_vars

\* C20 (amended): outside a #pragma asm block, '#file "', '#endfile' and
\* '#undef' lines are written unchanged whether or not the branch matches, a
\* '#define ' line is written unchanged in a matching branch and as an empty
\* line in another, and every other '#' line is written as an empty line,
\* except a #error line of a matching branch, where getcode returns
C20_MarkersPassDefineIfMatch ==
    [][\A line \in SelectLines :
          (C20_Reads(line) /\ StartsWith(line, "#") /\ ~getcodeState.inasm) =>
              IF \/ StartsWith(line, "#file \"") \/ StartsWith(line, "#endfile")
                 \/ StartsWith(line, "#undef")
              THEN C20_Writes(line, line)
              ELSE IF StartsWith(line, "#define ")
              THEN C20_Writes(line, IF getcodeState'.match THEN line ELSE "")
              ELSE IF StartsWith(line, "#error") /\ getcodeState'.match
              THEN getcodeState'.returned /\ getcodeState'.ret = getcodeState.ret
              ELSE C20_Writes(line, "")]_vars

\* in a branch that does not match, the selector blanked #ifdef and #define and
\* wrote #undef and #file as they are
C20_Witness ==
    /\ pc = "getcode"
    /\ ~getcodeState.match
    /\ filedata = "#ifdef A\n#define B\n#undef B\n#file \"a.h\"\n"
    /\ getcodeState.ret = "\n\n#undef B\n#file \"a.h\"\n"

\* the text of the file that was read
C12_Input == files["a.c"]

\* the number of line feeds of a text
C12_LineFeeds(s) == Cardinality({p \in 0 .. (Len(s) - 1) : At(s, p) = "\n"})

\* the number of line feeds of a text after each "\r" or "\r\n" is folded into
\* one line feed
C12_Folded(s) ==
    Cardinality({p \in 0 .. (Len(s) - 1) :
                    \/ At(s, p) = "\r"
                    \/ At(s, p) = "\n" /\ (p = 0 \/ At(s, p - 1) # "\r")})

RECURSIVE C12_Fold(_)
C12_Fold(s) ==
    IF s = "" THEN ""
    ELSE IF StartsWith(s, "\r\n") THEN "\n" \o C12_Fold(SubstrFrom(s, 2))
    ELSE IF StartsWith(s, "\r") THEN "\n" \o C12_Fold(SubstrFrom(s, 1))
    ELSE Substr(s, 0, 1) \o C12_Fold(SubstrFrom(s, 1))

\* the last n lines of a text that ends with a line feed
C12_LastLines(t, n) ==
    LET feeds == {p \in 0 .. (Len(t) - 2) : At(t, p) = "\n"}
        before == {p \in feeds : Cardinality({q \in feeds : q >= p}) = n}
    IN  IF before = {} THEN t ELSE SubstrFrom(t, Max(before) + 1)

\* the folded text t of an input s that ends with "\n": its last two lines hold
\* no backslash, its last line holds no quote character and no "//", and every
\* "/*" has a "*/" after it
C12_EndsWithCodeLine(s, t) ==
    /\ s # ""
    /\ At(s, Len(s) - 1) = "\n"
    /\ Find(C12_LastLines(t, 2), "\\", 0) = NPOS
    /\ \A c \in {"\"", "'", "//"} : Find(C12_LastLines(t, 1), c, 0) = NPOS
    /\ \A p \in 0 .. (Len(t) - 2) :
          Substr(t, p, 2) = "/*" => Find(t, "*/", p + 2) # NPOS

RECURSIVE C13_ParAfterPar(_, _)
C13_ParAfterPar(s, open) ==
    IF s = "" THEN FALSE
    ELSE IF Substr(s, 0, 1) = "(" THEN open \/ C13_ParAfterPar(SubstrFrom(s, 1), TRUE)
    ELSE IF Substr(s, 0, 1) \in {" ", "\t"} THEN C13_ParAfterPar(SubstrFrom(s, 1), open)
    ELSE C13_ParAfterPar(SubstrFrom(s, 1), FALSE)

\* a text with no backslash, no quote character, no comment opener and no
\* parenthesis opened right after another
C13_Plain(s) ==
    /\ \A c \in {"\\", "\"", "'", "/*", "//"} : Find(s, c, 0) = NPOS
    /\ ~C13_ParAfterPar(s, FALSE)

MacroIs(name, macro) ==
    /\ name \in DOMAIN expandMacrosState.macros
    /\ expandMacrosState.macros[name].macro = macro

\* the line that is scanned was read as use and the scan has come to its end
MacroLineDone(use) ==
    /\ pc = "expandMacros"
    /\ expandMacrosState.inline
    /\ expandMacrosState.pos >= Len(expandMacrosState.line)
    /\ expandMacrosState.p = Len(filedata) - 1
    /\ Len(filedata) > Len(use)
    /\ SubstrFrom(filedata, Len(filedata) - Len(use) - 1) = use \o "\n"

RECURSIVE C14_NoBlanks(_)
C14_NoBlanks(s) ==
    IF s = "" THEN ""
    ELSE (IF At(s, 0) = " " THEN "" ELSE At(s, 0)) \o C14_NoBlanks(SubstrFrom(s, 1))

\* C14: with #define LOG(fmt, ...) printf(fmt, ##__VA_ARGS__), expandMacros turns
\* LOG("x") into printf("x") (no comma, as no variadic argument is given) and
\* LOG("x", 1) into printf("x", 1) (fmt is the first argument and __VA_ARGS__
\* the others); the texts are compared without their blanks
C14_NamedVariadic ==
    MacroIs("LOG", "LOG(fmt, ...) printf(fmt, ##__VA_ARGS__)") =>
        /\ MacroLineDone("LOG(\"x\");")
               => C14_NoBlanks(expandMacrosState.line) = "printf(\"x\");"
        /\ MacroLineDone("LOG(\"x\", 1);")
               => C14_NoBlanks(expandMacrosState.line) = "printf(\"x\",1);"


\* the loop over the line stands at the first character of a name
MacroAtName ==
    /\ MacroScanEnabled
    /\ expandMacrosState.pos < Len(expandMacrosState.line)
    /\ (isalpha(At(expandMacrosState.line, expandMacrosState.pos))
           \/ At(expandMacrosState.line, expandMacrosState.pos) = "_")

\* the name at pos, the position after it, and what getparams reads there
MacroNameEnd == identEnd(expandMacrosState.line, expandMacrosState.pos + 1)
MacroNameAt ==
    Substr(expandMacrosState.line, expandMacrosState.pos, MacroNameEnd - expandMacrosState.pos)
MacroArgs == getparams(expandMacrosState.line, MacroNameEnd)
MacroArgCount == IF MacroArgs.params = <<"">> THEN 0 ELSE Len(MacroArgs.params)

\* the name at pos is the name of a macro with parentheses, it is followed by
\* an argument list that is closed, and the limit of the macro allows it
MacroCallAt ==
    /\ MacroAtName
    /\ MacroNameAt \in DOMAIN expandMacrosState.macros
    /\ LET macro == expandMacrosState.macros[MacroNameAt]
       IN  /\ macro.variadic \/ macro.nopar \/ macro.params # <<>>
           /\ MacroNameEnd < Len(expandMacrosState.line)
           /\ MacroArgs.endFound
           /\ ~limited(expandMacrosState.limits, MacroNameAt, expandMacrosState.line,
                       MacroNameEnd)

\* the next state: syntaxError is reported for the line, "" is returned, and
\* every macro that was allocated is deleted, once
MacroSyntaxError ==
    /\ expandMacrosState'.returned
    /\ expandMacrosState'.text = ""
    /\ expandMacrosState'.errors =
           Append(expandMacrosState.errors,
                  <<expandMacrosState.linenr + expandMacrosState.tmpLinenr, "syntaxError">>)
    /\ Len(expandMacrosState'.deleted) = expandMacrosState.allocated
    /\ {expandMacrosState'.deleted[i] : i \in 1 .. Len(expandMacrosState'.deleted)}
           = 1 .. expandMacrosState.allocated

\* the next state: the name is passed, nothing is expanded and nothing reported
MacroPassed ==
    expandMacrosState' = [expandMacrosState EXCEPT !.pos = MacroNameEnd,
                                                   !.steps = expandMacrosState.steps + 1]

C16_Missing(macro, count) ==
    \E k \in firstClose(macro.tokens) + 1 .. Len(macro.tokens), i \in 1 .. Len(macro.params) :
        /\ macro.tokens[k] \in {macro.params[i], "#" \o macro.params[i]}
        /\ i > count
        /\ ~(macro.variadic
               /\ (i = Len(macro.params)
                      \/ (count + 2 = Len(macro.params) /\ i + 1 = Len(macro.params))))

C17_Ids(deleted) == {deleted[i] : i \in 1 .. Len(deleted)}

\* C17: when expandMacros has returned (at the end of the text, after
\* noQuoteCharPair or after syntaxError), every macro that a #define line
\* allocated has been deleted, and none twice; before the return no macro has
\* been deleted twice, the macros of the map are not deleted, and every other
\* macro that was allocated is
C17_EveryMacroDeletedOnce ==
    /\ pc \in {"expandMacros", "done"} =>
          /\ Len(expandMacrosState.deleted) = Cardinality(C17_Ids(expandMacrosState.deleted))
          /\ C17_Ids(expandMacrosState.deleted) \subseteq 1 .. expandMacrosState.allocated
    /\ (pc \in {"expandMacros", "done"} /\ expandMacrosState.returned) =>
          C17_Ids(expandMacrosState.deleted) = 1 .. expandMacrosState.allocated
    /\ (pc = "expandMacros" /\ ~expandMacrosState.returned) =>
          C17_Ids(expandMacrosState.deleted) =
              (1 .. expandMacrosState.allocated)
                  \ {expandMacrosState.macros[n].id : n \in DOMAIN expandMacrosState.macros}

\* a macro was defined again, the first object was deleted at once and the
\* second at the return after noQuoteCharPair
C17_Witness ==
    /\ pc = "done"
    /\ expandMacrosState.code = "#define A A\n#define A B\nx = \"a;\n"
    /\ expandMacrosState.errors = <<<<3, "noQuoteCharPair">>>>
    /\ expandMacrosState.allocated = 2
    /\ expandMacrosState.deleted = <<1, 2>>


\* the text defines A with a body that names A, with or without parameters, or
\* A as B and B as A, and the last line uses A
C11_SelfReferential ==
    /\ \/ MacroIs("A", "A A")
       \/ MacroIs("A", "A(x) A(x)")
       \/ MacroIs("A", "A B") /\ MacroIs("B", "B A")
    /\ \E use \in {"A;", "A(1);"} : SubstrFrom(filedata, Len(filedata) - Len(use) - 1) = use \o "\n"

\* C11: expandMacros returns for every text, so also for a text that defines A
\* with a body that names A, or A as B and B as A, and uses A; the loop over a
\* line never runs MaxMacroSteps times; and the macro that was expanded last is
\* not expanded again at a name that lies in the text that expansion inserted
C11_ExpansionHalts ==
    /\ <>(pc = "done")
    /\ [](pc = "expandMacros" => expandMacrosState.steps < MaxMacroSteps)
    /\ [][(/\ MacroAtName
           /\ expandMacrosState.expanded.name = MacroNameAt
           /\ expandMacrosState.expanded.from <= expandMacrosState.pos
           /\ MacroNameEnd <= expandMacrosState.expanded.to)
          => MacroPassed]_vars

\* A was expanded to text that names A, the scan came to the end of the line
\* and the line is the one that the single expansion left
C11_Witness ==
    /\ C11_SelfReferential
    /\ MacroIs("A", "A(x) A(x)")
    /\ MacroLineDone("A(1);")
    /\ expandMacrosState.expanded = [name |-> "A", from |-> 0, to |-> 4]
    /\ expandMacrosState.line = "A(1);"

(***************************************************************************)
(* Claims about simplifyCondition on two operands (SpecCond)               *)
(***************************************************************************)
\* the condition with its two operands exchanged, when it is X||Y
C24_Swapped ==
    LET p == Find(condition, "||", 0)
    IN  SubstrFrom(condition, p + 2) \o "||" \o Substr(condition, 0, p)

\* C24: the neighbours of a name with an empty value are tested on both
\* sides, so that a disjunction matches in either order of its operands:
\* match_cfg_def(cfg, "X||Y") equals match_cfg_def(cfg, "Y||X")
C24_DisjunctionCommutes ==
    (pc = "done" /\ Find(condition, "||", 0) # NPOS)
        => (matches <=> match_cfg_def(getcodeState.cfgmap, C24_Swapped))

(***************************************************************************)
(* Claims about the stacks of getcode (SpecMatching)                       *)
(***************************************************************************)
\* C28: getcode never takes back() of matching_ifdef or matched_ifdef while the
\* list is empty: a stray #elif, #else or #endif is ignored
C28_NoBackOfEmpty ==
    /\ ~getcodeState.ub
    /\ Len(getcodeState.matching_ifdef) = Len(getcodeState.matched_ifdef)

\* the names of the #define lines that getcode read in matching branches
C27_Defined == {Substr(l[2], 8, identEnd(l[2], 8) - 8) : l \in getcodeState.kept}

\* C27: a #define in a branch that does not match has no effect on later
\* conditionals: the map they are matched against holds the names of the
\* configuration and the names defined in matching branches, and no other
C27_InactiveDefineNoEffect ==
    DOMAIN getcodeState.cfgmap = C8_Names(config) \cup C27_Defined

(***************************************************************************)
(* Claims about #undef in getcode (SpecUndef)                              *)
(***************************************************************************)
\* whether macro B is defined after the lines from i on, when only the
\* #define and #undef lines of matching branches count; depth is the number
\* of open "#ifdef A"
RECURSIVE C30_DefinedAfter(_, _, _, _)
C30_DefinedAfter(lines, i, depth, defined) ==
    LET active == config = "A" \/ depth = 0
    IN  IF i > Len(lines) THEN defined
        ELSE IF lines[i] = "#ifdef A" THEN C30_DefinedAfter(lines, i + 1, depth + 1, defined)
        ELSE IF lines[i] = "#endif"
        THEN C30_DefinedAfter(lines, i + 1, Max({depth - 1, 0}), defined)
        ELSE IF lines[i] = "#define B 1"
        THEN C30_DefinedAfter(lines, i + 1, depth, defined \/ active)
        ELSE IF lines[i] = "#undef B"
        THEN C30_DefinedAfter(lines, i + 1, depth, defined /\ ~active)
        ELSE C30_DefinedAfter(lines, i + 1, depth, defined)

\* the text ends with a use of B outside every conditional
C30_UseAtEnd ==
    /\ pc = "done"
    /\ getcodeState.nlines >= 1
    /\ getlineAll(filedata)[getcodeState.nlines] = "B;"
    /\ getcodeState.matching_ifdef = <<>>

\* C30: a #undef in a branch that does not match does not remove the macro: a
\* use after it is expanded if the macro is defined by the #define and #undef
\* lines of the matching branches
C30_InactiveUndefNoEffect ==
    (C30_UseAtEnd /\ C30_DefinedAfter(getlineAll(filedata), 1, 0, FALSE))
        => getlineAll(result.text)[getcodeState.nlines] = "1;"

(***************************************************************************)
(* Claims about the lines getcode writes (SpecAsm)                         *)
(***************************************************************************)
\* the lines of a text that ends with a line feed or is empty; one line more
\* than getline reads when a last line has no line feed
C21_Lines(s) ==
    IF s = "" \/ At(s, Len(s) - 1) = "\n" THEN Len(getlineAll(s)) ELSE Len(getlineAll(s)) + 1

\* C21: unless getcode returned at a matching #error, the text it hands to
\* expandMacros has one line for every line it read, the lines of "#pragma
\* asm" blocks with or without a closing line among them
C21_LineCountKept ==
    ~getcodeState.returned =>
        /\ C21_Lines(getcodeState.ret) = Len(getlineAll(filedata))
        /\ C12_LineFeeds(getcodeState.ret) = Len(getlineAll(filedata))

\* a block closed by "#pragma endasm (x = 1)" was written as asm(x); and the
\* text ended inside a second block that has no closing line
C21_Witness ==
    /\ pc = "done"
    /\ ~getcodeState.returned
    /\ getcodeState.inasm
    /\ getcodeState.nlines = MaxAsmLines
    /\ getcodeState.ret = "\nasm(x);\n\n\n"

(***************************************************************************)
(* Claims about #error and #warning in removeComments (SpecComments)       *)
(***************************************************************************)
\* the lines of the input whose first characters are #error or #warning and
\* before which no comment and no string or character constant was opened
C25_Directives ==
    LET lines == getlineAll(files["a.c"])
        before(k) == IF k = 1 THEN "" ELSE join(SubSeq(lines, 1, k - 1), "\n")
    IN  {k \in 1 .. Len(lines) :
            /\ StartsWith(lines[k], "#error") \/ StartsWith(lines[k], "#warning")
            /\ \A c \in {"/*", "\"", "'"} : Find(before(k), c, 0) = NPOS}

\* line k of the text removeComments returned, empty if the text ends before it
C25_Written(k) ==
    IF k <= Len(getlineAll(filedata)) THEN getlineAll(filedata)[k] ELSE ""

\* C25 (as stated): a #error or #warning line, directive word and message
\* text, is in the output of removeComments as it is in the input
C25_DirectivesUnchanged ==
    pc = "done" => \A k \in C25_Directives : C25_Written(k) = getlineAll(files["a.c"])[k]

\* C25 (amended): of a line that starts with #error removeComments writes the
\* word #error and nothing else, of a line that starts with #warning it
\* writes nothing; the line stays a line of the output
C25_DirectivesCut ==
    pc = "done" =>
        \A k \in C25_Directives :
            C25_Written(k) = IF StartsWith(getlineAll(files["a.c"])[k], "#error")
                             THEN "#error" ELSE ""

\* a #error line and a #warning line, each with a message
C25_Witness ==
    /\ pc = "done"
    /\ files["a.c"] = "#error msg\n#warning msg"
    /\ filedata = "#error\n"

(***************************************************************************)
(* Claims about the configurations getcfgs returns (SpecCfgs)              *)
(***************************************************************************)
\* the names of the #define lines of the text
C23_DefinedNames == {defineNameOf(d) : d \in getcfgsState.defines}

\* the tokens of a configuration
C23_Tokens(cfg) == {C2_TokenAt(cfg, p) : p \in C2_TokenStarts(cfg)}

\* C23: no configuration that getcfgs returns at the end of the text holds a
\* token that is the name of a #define line of the text, whether the name came
\* from "#ifdef X" or from "defined(X) && defined(Y)"
C23_NoDefinedToken ==
    (pc = "done" /\ ~getcfgsState.returned) =>
        \A i \in 1 .. Len(configs) : C23_Tokens(configs[i]) \cap C23_DefinedNames = {}

(***************************************************************************)
(* Claims about the filter of unhandled configurations (SpecFilter)        *)
(***************************************************************************)
\* a letter or '_' followed by letters, digits and '_'
C26_Identifier(t) ==
    /\ t # ""
    /\ isalpha(At(t, 0)) \/ At(t, 0) = "_"
    /\ \A p \in 0 .. (Len(t) - 1) : isIdentChar(At(t, p))

\* an identifier, or an identifier, "=" and at least least digits
C26_Token(t, least) ==
    \/ C26_Identifier(t)
    \/ \E e \in 1 .. (Len(t) - 1) :
          /\ At(t, e) = "="
          /\ C26_Identifier(Substr(t, 0, e))
          /\ Len(t) - (e + 1) >= least
          /\ \A p \in (e + 1) .. (Len(t) - 1) : isdigit(At(t, p))

\* every token of every configuration returned at the end of the text is an
\* identifier, or an identifier, "=" and at least least digits
C26_AllTokens(least) ==
    (pc = "done" /\ ~getcfgsState.returned) =>
        \A i \in 1 .. Len(configs) :
            configs[i] # "" => \A t \in C23_Tokens(configs[i]) : C26_Token(t, least)

\* C26 (as stated): every configuration returned is a ';'-separated list of
\* tokens of the form identifier or identifier=digits
C26_HandledForm == C26_AllTokens(1)

\* C26 (amended): the digits after the "=" may be missing
C26_HandledFormOrNoDigits == C26_AllTokens(0)

\* "A=" and "B=1" were returned, and the conditions with an operator, with a
\* value that is no number and with parentheses were not
C26_Witness ==
    /\ pc = "done"
    /\ filedata \in {"#ifdef A=\n#ifdef B=1\n#if A=x\n#endif\n",
                     "#ifdef A=\n#if defined(A)||defined(B)\n#endif\n#ifdef B=1\n"}
    /\ \E i \in 1 .. Len(configs) : configs[i] = "A="
    /\ \E i \in 1 .. Len(configs) : configs[i] = "B=1" \/ configs[i] = "A=;B=1"
    /\ Len(configs) < Len(getcfgsState.ret)

(***************************************************************************)
(* Claims about #ifndef and #else in getcfgs (SpecNdef)                    *)
(***************************************************************************)
\* the open conditionals after the lines from i on: for each whether it is a
\* #ifndef with no #elif, its name, and the number of its #else lines
RECURSIVE C22_Frames(_, _, _)
C22_Frames(lines, i, stack) ==
    LET line == lines[i]
        frame(ndef, name) == [ndef |-> ndef, name |-> name, elses |-> 0]
        top == Back(stack)
    IN  IF i > Len(lines) THEN stack
        ELSE IF StartsWith(line, "#ifndef ")
        THEN C22_Frames(lines, i + 1, Append(stack, frame(TRUE, SubstrFrom(line, 8))))
        ELSE IF StartsWith(line, "#ifdef ")
        THEN C22_Frames(lines, i + 1, Append(stack, frame(FALSE, SubstrFrom(line, 7))))
        ELSE IF StartsWith(line, "#elif ")
        THEN C22_Frames(lines, i + 1,
                        Append(IF stack = <<>> THEN stack ELSE PopBack(stack),
                               frame(FALSE, SubstrFrom(line, 6))))
        ELSE IF line = "#else" /\ stack # <<>>
        THEN C22_Frames(lines, i + 1,
                        Append(PopBack(stack), [top EXCEPT !.elses = top.elses + 1]))
        ELSE IF line = "#endif" /\ stack # <<>>
        THEN C22_Frames(lines, i + 1, PopBack(stack))
        ELSE C22_Frames(lines, i + 1, stack)

\* C22: after the #else of a "#ifndef X" the frame of that #ifndef is X,
\* whatever nested conditionals were read before the #else
C22_ElseRestoresPositive ==
    LET stack == C22_Frames(getlineAll(filedata), 1, <<>>)
    IN  (~getcfgsState.returned /\ ~getcfgsState.ub) =>
            /\ Len(getcfgsState.deflist) = Len(stack)
            /\ \A j \in 1 .. Len(stack) :
                  (stack[j].ndef /\ stack[j].elses = 1)
                      => getcfgsState.deflist[j] = stack[j].name

(***************************************************************************)
(* Claims about the include guard in getcfgs (SpecGuard)                   *)
(***************************************************************************)
\* deflist as it was before the #file line of the text
C29_Before ==
    LET lines == getlineAll(filedata)
        f == CHOOSE i \in 1 .. Len(lines) : StartsWith(lines[i], "#file ")
    IN  getcfgsScan(getcfgsInit, SubSeq(lines, 1, f - 1)).deflist

\* C29: the block of an included file, with its include guard skipped, leaves
\* the stack as it was before #file, and a "#ifdef B" after the block inside
\* an open "#ifdef A" gives the configuration "A;B"
C29_GuardLeavesStack ==
    /\ (getcfgsState.linenr >= 1
            /\ getlineAll(filedata)[getcfgsState.linenr] = "#endfile"
            /\ Find(filedata, "#file \"a.h\"\n#ifndef G\n#define G\n", 0) # NPOS)
        => getcfgsState.deflist = C29_Before
    /\ (pc = "done" /\ StartsWith(filedata, "#ifdef A\n#file")
            /\ Find(filedata, "#endfile\n#ifdef B\n", 0) # NPOS)
        => \E i \in 1 .. Len(configs) : configs[i] = "A;B"

=============================================================================
